---- MODULE Spec2Model ----
(***************************************************************************)
(* Model of the extraction-and-normalisation core of vyom:                 *)
(*   vyom/schema/saphire.py  - the line-oriented format parsers            *)
(*   vyom/schema/openpra.py  - the target schema and its empty instances   *)
(*   vyom/converter.py       - to_openpra                                  *)
(*                                                                         *)
(* Text.  A text is a non-empty sequence of lines (the text joined by      *)
(* "\n"; the empty string is the one empty line).  A line is the sequence  *)
(* of its comma-separated fields, a field is the sequence of its           *)
(* whitespace-separated words, a word is [b, s]: b byte-order marks        *)
(* (U+FEFF) glued in front of the characters s.  The character "=" is      *)
(* always a word of its own.  A line without characters is <<>>.           *)
(* Python's str.strip() removes white space only, never U+FEFF.            *)
(*                                                                         *)
(* Spec: a file of one of the nine formats is written and parsed.          *)
(* SpecSchema: callers create, convert into and write to schema instances. *)
(* SpecUpgrade: callers create, convert into, load and upgrade instances.  *)
(* SpecExtract: analyze_files walks the files of an extracted archive.     *)
(* SpecEtl: an ETL file is written section by section and parsed, one     *)
(*   iteration of the loops of parse_etl_file at a time.                   *)
(* SpecSession: threads call track_command_execution on one session file.  *)
(* SpecValidate: callers normalise gate types and validate basic events.   *)
(***************************************************************************)
EXTENDS Integers, Sequences, FiniteSets, TLC

VARIABLES
    fmt,        \* extension of the file handed to parse_saphire_file
    content,    \* its text
    built,      \* how the text was put together (the blocks of an ETL text)
    corrupt,    \* number of the line of the text that was corrupted, 0 if none
    result,     \* what the parser returned, NoResult before the call
    heap,       \* Python objects of openpra.py and of its callers, by reference
    held,       \* references of the instances returned to callers so far
    last,       \* the last schema operation and what it returned
    archive,    \* the files of the extracted archive, in the order of the walk
    job,        \* analyze_files: the schema, its counters, the files walked
    session,    \* the session file, its lock and the threads tracking commands
    scan        \* parse_etl_file run step by step: its local variables

pvars == <<fmt, content, built, corrupt, result>>
svars == <<heap, held, last>>
evars == <<archive, job>>
vars ==
    <<fmt, content, built, corrupt, result, heap, held, last, archive, job, session, scan>>

\* ------------------------------------------------------------------ bounds
MaxBlocks == 2
MaxBom == 2
MaxLines == 3
MaxCalls == 3
MaxEntries == 1
MaxFiles == 3
\* session: threads that track commands, and calls each of them makes
MaxThreads == 2
\* sections written to an ETL file after the header of its first tree
MaxSections == 3
MaxCmds == 2

\* -------------------------------------------------------------------- text
W(s) == [b |-> 0, s |-> s]
BomWord(n, s) == [b |-> n, s |-> s]
EmptyLine == <<>>
EmptyText == <<EmptyLine>>
Line1(s) == << <<W(s)>> >>
Csv(ss) == [k \in 1..Len(ss) |-> IF ss[k] = "" THEN <<>> ELSE <<W(ss[k])>>]
Words(ss) == << [k \in 1..Len(ss) |-> W(ss[k])] >>

\* a line whose only field is empty is the empty line
NormLine(l) == IF l = << <<>> >> THEN <<>> ELSE l

\* str.strip() of a text: leading and trailing empty lines go
RECURSIVE LStrip(_)
LStrip(ls) ==
    IF ls # <<>> /\ Head(ls) = EmptyLine THEN LStrip(Tail(ls)) ELSE ls

RECURSIVE RStrip(_)
RStrip(ls) ==
    IF ls # <<>> /\ ls[Len(ls)] = EmptyLine
        THEN RStrip(SubSeq(ls, 1, Len(ls) - 1))
        ELSE ls

StripText(t) ==
    LET s == RStrip(LStrip(t)) IN IF s = <<>> THEN EmptyText ELSE s

\* text.startswith(U+FEFF)
StartsWithBom(t) ==
    /\ t[1] # <<>>
    /\ t[1][1] # <<>>
    /\ t[1][1][1].b > 0

\* text[1:] of a text that starts with a byte-order mark
DropFirstChar(t) ==
    LET w == t[1][1][1]
        f == IF w.b = 1 /\ w.s = ""
                THEN Tail(t[1][1])
                ELSE <<[w EXCEPT !.b = @ - 1]>> \o Tail(t[1][1])
        l == NormLine(<<f>> \o Tail(t[1]))
    IN  <<l>> \o Tail(t)

\* the text with n more byte-order marks in front of its first character
PrefixBom(t, n) ==
    IF n = 0 THEN t
    ELSE LET l == t[1]
             nl == IF l = <<>> THEN << <<BomWord(n, "")>> >>
                   ELSE IF l[1] = <<>> THEN << <<BomWord(n, "")>> >> \o Tail(l)
                   ELSE << <<[l[1][1] EXCEPT !.b = @ + n]>> \o Tail(l[1]) >> \o Tail(l)
         IN  <<nl>> \o Tail(t)

\* line.split(','): the stripped parts
Parts(l) == IF l = <<>> THEN << <<>> >> ELSE l

FirstWord(l) == IF l = <<>> \/ l[1] = <<>> THEN W("") ELSE l[1][1]

\* line.split(): the words (the lines split this way hold no comma)
RECURSIVE WsSplit(_)
WsSplit(l) == IF l = <<>> THEN <<>> ELSE Head(l) \o WsSplit(Tail(l))

HasEq(f) == \E k \in 1..Len(f) : f[k].s = "="
FirstEq(f) == CHOOSE k \in 1..Len(f) : f[k].s = "=" /\ \A j \in 1..(k - 1) : f[j].s # "="
LineHasEq(l) == \E k \in 1..Len(l) : HasEq(l[k])

\* line.split('=')[0]
RECURSIVE BeforeEq(_)
BeforeEq(l) ==
    IF l = <<>> THEN <<>>
    ELSE IF HasEq(Head(l)) THEN <<SubSeq(Head(l), 1, FirstEq(Head(l)) - 1)>>
    ELSE <<Head(l)>> \o BeforeEq(Tail(l))

\* what follows the first '=' of a line that has one
RECURSIVE AfterEq(_)
AfterEq(l) ==
    IF HasEq(Head(l))
        THEN <<SubSeq(Head(l), FirstEq(Head(l)) + 1, Len(Head(l)))>> \o Tail(l)
        ELSE AfterEq(Tail(l))

\* line.split('='), each part stripped
RECURSIVE EqSplit(_)
EqSplit(l) ==
    IF ~LineHasEq(l) THEN <<NormLine(l)>>
    ELSE <<NormLine(BeforeEq(l))>> \o EqSplit(AfterEq(l))

\* text.split('^EOS'); "^EOS" stands on a line of its own
IsEosLine(l) == Len(l) = 1 /\ Len(l[1]) = 1 /\ l[1][1].s = "^EOS"
BeforeEosOnLine(l) ==
    IF l[1][1].b = 0 THEN EmptyLine ELSE << <<BomWord(l[1][1].b, "")>> >>

RECURSIVE SplitEosFrom(_, _, _)
SplitEosFrom(ls, cur, acc) ==
    IF ls = <<>> THEN Append(acc, cur)
    ELSE IF IsEosLine(Head(ls))
        THEN SplitEosFrom(Tail(ls), <<EmptyLine>>,
                          Append(acc, Append(cur, BeforeEosOnLine(Head(ls)))))
        ELSE SplitEosFrom(Tail(ls), Append(cur, Head(ls)), acc)

SplitEos(t) == SplitEosFrom(t, <<>>, <<>>)

CaretWords == {"^TOPS", "^SEQUENCES", "^LOGIC", "^NODESUBS", "^TEXT", "^EOS"}
StartsCaret(l) == FirstWord(l).b = 0 /\ FirstWord(l).s \in CaretWords
IsLine(l, s) == l = Line1(s)

\* line.strip('"')
QuotedWords == {"\"d1\""}
Unquote(l) ==
    IF Len(l) = 1 /\ Len(l[1]) = 1 /\ l[1][1].b = 0 /\ l[1][1].s \in QuotedWords
        THEN Line1("d1")
        ELSE l

\* dict[k] = v
DictSet(d, k, v) == [x \in (DOMAIN d) \cup {k} |-> IF x = k THEN v ELSE d[x]]

\* ------------------------------------------------- saphire.parse_etl_file
\* None, which is no text: no word has a negative count of byte-order marks
NoTree == <<[b |-> 0 - 1, s |-> "None"]>>
ErrContent == "Error parsing event tree content in block"
ErrHeader == "Error parsing event tree header"
ErrWarning == "Warning: Expected to find more trees"
ErrEtlFile == "Error parsing ETL file"

NewTree(name) ==
    [name |-> name, top_events |-> <<>>, sequences |-> <<>>,
     node_descriptions |-> <<>>, node_substitutions |-> <<>>]

HasTree(trees, name) == \E k \in 1..Len(trees) : trees[k].name = name
TreeIdx(trees, name) == CHOOSE k \in 1..Len(trees) : trees[k].name = name
TreeNames(trees) == {trees[k].name : k \in 1..Len(trees)}

IsEtlHeader(l) == Len(l) >= 2 /\ l[1] = <<W("HTGR_PRA")>>
StartsNodepos(l) == FirstWord(l) = W("NODEPOS")

\* the ^TOPS handler: the line after the marker is the list
TopsOf(l) ==
    LET ids == SelectSeq(Parts(l), LAMBDA f : f # <<>>)
    IN  [k \in 1..Len(ids) |-> [id |-> ids[k], description |-> ids[k]]]

\* the inner loop of the ^SEQUENCES handler, from line j
RECURSIVE SeqLoop(_, _, _)
SeqLoop(lines, j, seqs) ==
    IF j > Len(lines) \/ StartsCaret(lines[j]) THEN [i |-> j, v |-> seqs, exc |-> FALSE]
    ELSE LET p == Parts(lines[j]) IN
         IF Len(p) >= 4 /\ p[1] = <<W("Y")>> /\ p[2] # <<>>
            THEN SeqLoop(lines, j + 1,
                         Append(seqs, [id |-> p[2], end_state |-> p[4], path |-> <<>>]))
            ELSE SeqLoop(lines, j + 1, seqs)

AddNode(seqs, name, node) ==
    IF \E m \in 1..Len(seqs) : seqs[m].id = name
        THEN LET m == CHOOSE x \in 1..Len(seqs) :
                        seqs[x].id = name /\ \A y \in 1..(x - 1) : seqs[y].id # name
             IN  [seqs EXCEPT ![m].path = Append(@, node)]
        ELSE seqs

\* the inner loop of the ^LOGIC handler
RECURSIVE LogicLoop(_, _, _)
LogicLoop(lines, j, seqs) ==
    IF j > Len(lines) \/ StartsCaret(lines[j]) THEN [i |-> j, v |-> seqs, exc |-> FALSE]
    ELSE LET p == Parts(lines[j]) IN
         IF Len(p) >= 2
            THEN LogicLoop(lines, j + 1, AddNode(seqs, p[1], p[2]))
            ELSE LogicLoop(lines, j + 1, seqs)

\* the inner loop of the ^NODESUBS handler; split()[1] of a line that is
\* only "NODEPOS" raises IndexError with i at that line
RECURSIVE SubsLoop(_, _, _)
SubsLoop(lines, j, subs) ==
    IF j > Len(lines) \/ StartsCaret(lines[j]) THEN [i |-> j, v |-> subs, exc |-> FALSE]
    ELSE IF StartsNodepos(lines[j])
        THEN IF Len(WsSplit(lines[j])) < 2 THEN [i |-> j, v |-> subs, exc |-> TRUE]
             ELSE LET node == WsSplit(lines[j])[2]
                      p == IF j + 1 <= Len(lines) THEN EqSplit(lines[j + 1]) ELSE <<>>
                  IN  IF Len(p) = 2
                         THEN SubsLoop(lines, j + 2,
                                  DictSet(subs, node, [original |-> p[1], substitute |-> p[2]]))
                         ELSE SubsLoop(lines, j + 2, subs)
        ELSE SubsLoop(lines, j + 1, subs)

\* the inner loop of the ^TEXT handler
RECURSIVE TextLoop(_, _, _)
TextLoop(lines, j, descs) ==
    IF j > Len(lines) \/ StartsCaret(lines[j]) THEN [i |-> j, v |-> descs, exc |-> FALSE]
    ELSE IF StartsNodepos(lines[j])
        THEN IF Len(WsSplit(lines[j])) < 2 THEN [i |-> j, v |-> descs, exc |-> TRUE]
             ELSE LET node == WsSplit(lines[j])[2] IN
                  IF j + 1 <= Len(lines)
                     THEN TextLoop(lines, j + 2, DictSet(descs, node, Unquote(lines[j + 1])))
                     ELSE TextLoop(lines, j + 2, descs)
        ELSE TextLoop(lines, j + 1, descs)

\* what the try block of one iteration of the scan does at line i (1-based):
\* [i, trees, exc, cont], i the index the handler leaves, exc whether it
\* raised, cont whether it ends with "continue" (no i += 1 after it).
\* cur names a tree of trees: the header of the block has just put it there.
SeqSkipLines == 2
ScanTry(lines, cur, i, trees) ==
    LET line == lines[i]
        k == TreeIdx(trees, cur)
    IN
    IF IsLine(line, "^TOPS") THEN
        [i |-> i + 1, exc |-> FALSE, cont |-> FALSE,
         trees |-> IF i + 1 <= Len(lines)
                     THEN [trees EXCEPT ![k].top_events = @ \o TopsOf(lines[i + 1])]
                     ELSE trees]
    ELSE IF FirstWord(line) = W("^SEQUENCES") THEN
        LET r == SeqLoop(lines, i + SeqSkipLines, trees[k].sequences) IN
        [i |-> r.i, trees |-> [trees EXCEPT ![k].sequences = r.v],
         exc |-> FALSE, cont |-> TRUE]
    ELSE IF IsLine(line, "^LOGIC") THEN
        LET r == LogicLoop(lines, i + 1, trees[k].sequences) IN
        [i |-> r.i, trees |-> [trees EXCEPT ![k].sequences = r.v],
         exc |-> FALSE, cont |-> TRUE]
    ELSE IF IsLine(line, "^NODESUBS") THEN
        LET r == SubsLoop(lines, i + 1, trees[k].node_substitutions) IN
        [i |-> r.i, trees |-> [trees EXCEPT ![k].node_substitutions = r.v],
         exc |-> r.exc, cont |-> ~r.exc]
    ELSE IF IsLine(line, "^TEXT") THEN
        LET r == TextLoop(lines, i + 1, trees[k].node_descriptions) IN
        [i |-> r.i, trees |-> [trees EXCEPT ![k].node_descriptions = r.v],
         exc |-> r.exc, cont |-> ~r.exc]
    ELSE [i |-> i, trees |-> trees, exc |-> FALSE, cont |-> FALSE]

\* the iteration without the "i += 1" that ends the loop body
ScanStepNoIncrement(lines, cur, st) ==
    IF lines[st.i] = EmptyLine THEN [st EXCEPT !.i = @ + 1]
    ELSE LET r == ScanTry(lines, cur, st.i, st.trees) IN
         [i |-> r.i, trees |-> r.trees,
          errors |-> IF r.exc THEN Append(st.errors, ErrContent) ELSE st.errors]

\* one iteration of "while i < len(lines)": st = [i, trees, errors]
ScanStep(lines, cur, st) ==
    IF lines[st.i] = EmptyLine THEN [st EXCEPT !.i = @ + 1]
    ELSE LET r == ScanTry(lines, cur, st.i, st.trees) IN
         IF r.exc
            THEN [i |-> r.i + 1, trees |-> r.trees, errors |-> Append(st.errors, ErrContent)]
            ELSE [i |-> IF r.cont THEN r.i ELSE r.i + 1, trees |-> r.trees, errors |-> st.errors]

RECURSIVE ScanBlock(_, _, _)
ScanBlock(lines, cur, st) ==
    IF st.i > Len(lines) THEN st ELSE ScanBlock(lines, cur, ScanStep(lines, cur, st))

\* split(',')[0] taken where split(',')[1] stands
HeaderProject(first) == BeforeEq(first)[1]

\* the tree name of a header line: the second comma part of what precedes '='
HeaderName(first) == BeforeEq(first)[2]

\* the body of "for block_idx, block in enumerate(tree_blocks)":
\* st = [trees, errors, cur]
BlockStep(block, st) ==
    IF StripText(block) = EmptyText THEN st
    ELSE LET b1 == IF StartsWithBom(StripText(block))
                      THEN DropFirstChar(StripText(block))
                      ELSE block
             lines == StripText(b1)
             first == lines[1]
         IN
         IF IsEtlHeader(first) THEN
            LET named == Len(BeforeEq(first)) >= 2
                cur1 == IF named THEN HeaderName(first) ELSE st.cur
                trees1 == IF named /\ ~HasTree(st.trees, cur1)
                             THEN Append(st.trees, NewTree(cur1))
                             ELSE st.trees
                r == ScanBlock(lines, cur1, [i |-> 2, trees |-> trees1, errors |-> st.errors])
            IN  [trees |-> r.trees, errors |-> r.errors, cur |-> cur1]
         ELSE st

RECURSIVE BlockLoop(_, _, _)
BlockLoop(blocks, n, st) ==
    IF n > Len(blocks) THEN st ELSE BlockLoop(blocks, n + 1, BlockStep(blocks[n], st))

\* the number the count of named trees is compared with
ExpectedTrees(blocks) == Len(blocks) - 1

parse_etl_file(text) ==
    LET c == IF StartsWithBom(text) THEN DropFirstChar(text) ELSE text
        tree_blocks == SplitEos(c)
        st == BlockLoop(tree_blocks, 1, [trees |-> <<>>, errors |-> <<>>, cur |-> NoTree])
        errors == IF Len(st.trees) < ExpectedTrees(tree_blocks)
                     THEN Append(st.errors, ErrWarning)
                     ELSE st.errors
    IN  [type |-> "event_tree_logic", data |-> [event_trees |-> st.trees],
         errors |-> errors, raised |-> FALSE]

\* ---- parse_etl_file, one loop iteration at a time
\* The local variables of parse_etl_file: pc is where the call stands (none:
\* not called, blocks: in the for loop between two blocks, scan: in the
\* while loop of a block, done: returned), b the blocks done, i the line
\* index (1-based), prev its value when the last iteration began and n the
\* iterations of the while loop made in the block.
NoScan ==
    [pc |-> "none", tree_blocks |-> <<>>, b |-> 0, lines |-> <<>>, cur |-> NoTree,
     i |-> 0, prev |-> 0, n |-> 0, trees |-> <<>>, errors |-> <<>>]

\* the statements before the for loop
ScanStart(text) ==
    [NoScan EXCEPT !.pc = "blocks",
                   !.tree_blocks = SplitEos(IF StartsWithBom(text) THEN DropFirstChar(text)
                                            ELSE text)]

\* the body of the for loop up to "while i < len(lines)"
ScanBlockHead(sc, block) ==
    IF StripText(block) = EmptyText THEN [sc EXCEPT !.b = @ + 1]
    ELSE LET b1 == IF StartsWithBom(StripText(block))
                      THEN DropFirstChar(StripText(block))
                      ELSE block
             lines == StripText(b1)
             first == lines[1]
             named == Len(BeforeEq(first)) >= 2
             cur1 == IF named THEN HeaderName(first) ELSE sc.cur
         IN
         IF IsEtlHeader(first)
            THEN [sc EXCEPT !.pc = "scan", !.b = @ + 1, !.lines = lines, !.cur = cur1,
                            !.i = 2, !.prev = 1, !.n = 0,
                            !.trees = IF named /\ ~HasTree(sc.trees, cur1)
                                         THEN Append(sc.trees, NewTree(cur1))
                                         ELSE sc.trees]
            ELSE [sc EXCEPT !.b = @ + 1]

\* one iteration of the while loop
ScanIterate(sc, st) ==
    [sc EXCEPT !.prev = sc.i, !.n = @ + 1, !.i = st.i, !.trees = st.trees, !.errors = st.errors]

\* the statements after the for loop
ScanReturn(sc) ==
    [type |-> "event_tree_logic", data |-> [event_trees |-> sc.trees],
     errors |-> IF Len(sc.trees) < ExpectedTrees(sc.tree_blocks)
                   THEN Append(sc.errors, ErrWarning)
                   ELSE sc.errors,
     raised |-> FALSE]

\* ------------------------------------------------ the ETL texts enumerated
\* A text is built block by block.  Block k is one of the shapes below with
\* the identifiers of index k, preceded by 0..MaxBom byte-order marks and
\* followed or not by a line ^EOS.
IdsT == <<"T1", "T2", "T3", "T4">>
IdsIE == <<"IE-T1", "IE-T2", "IE-T3", "IE-T4">>
IdsA == <<"A1", "A2", "A3", "A4">>
IdsB == <<"B1", "B2", "B3", "B4">>
IdsS == <<"S1", "S2", "S3", "S4">>
IdsR == <<"R1", "R2", "R3", "R4">>
IdsN == <<"n1", "n2", "n3", "n4">>
EndStateOf(k) == IF k % 2 = 1 THEN "OK" ELSE "FAIL"

HeaderLine(k) == << <<W("HTGR_PRA")>>, <<W(IdsT[k])>>, <<W(IdsIE[k]), W("=")>> >>
SeqLine(id, es) == Csv(<<"Y", id, "", es>>)
NoiseLine == Line1("<U+FFFD><U+FFFD>")

BlockShapes == {"min", "full", "subs", "bare", "noise"}
TreeShapes == {"min", "full"}

BlockLines(shape, k) ==
    CASE shape = "min" ->
            <<HeaderLine(k), Line1("^TOPS"), Csv(<<IdsA[k], IdsB[k]>>),
              Line1("^SEQUENCES"), Line1("*"), SeqLine(IdsS[k], EndStateOf(k))>>
      [] shape = "full" ->
            <<HeaderLine(k), Line1("^TOPS"), Csv(<<IdsA[k], IdsB[k]>>),
              Line1("^SEQUENCES"), Line1("*"),
              SeqLine(IdsS[k], "OK"), SeqLine(IdsR[k], "FAIL"),
              Line1("^LOGIC"), Csv(<<IdsS[k], IdsA[k]>>), Csv(<<IdsR[k], IdsB[k]>>)>>
      [] shape = "subs" ->
            <<HeaderLine(k), Line1("^NODESUBS"), Words(<<"NODEPOS", IdsN[k]>>),
              Words(<<"o", "=", "s">>), Line1("^TEXT"), Line1("NODEPOS"), Line1("\"d1\"")>>
      [] shape = "bare" ->
            <<HeaderLine(k), Line1("^NODESUBS"), Line1("NODEPOS"),
              Words(<<"o", "=", "s">>), Line1("^TEXT"), Words(<<"NODEPOS", IdsN[k]>>),
              Line1("\"d1\"")>>
      [] OTHER -> <<NoiseLine>>

BlockText(d, k) ==
    PrefixBom(BlockLines(d.shape, k), d.bom)
        \o (IF d.eos THEN <<Line1("^EOS")>> ELSE <<>>)

\* text + "\n" + more, the empty text taking no "\n"
JoinText(t, more) == IF t = EmptyText THEN more ELSE t \o more

RECURSIVE TextOf(_, _)
TextOf(ds, n) ==
    IF n = 0 THEN EmptyText ELSE JoinText(TextOf(ds, n - 1), BlockText(ds[n], n))
\* ------------------------------------------------- saphire.parse_bei_file
\* float(): the numerals read, in thousandths; any other text raises
NumericWords == {"0", "0.01", "0.5", "1", "1.5", "-0.1"}
FloatOf(s) ==
    CASE s = "0" -> 0 [] s = "0.01" -> 10 [] s = "0.5" -> 500
      [] s = "1" -> 1000 [] s = "1.5" -> 1500 [] OTHER -> 0 - 100
IsNumeral(f) == Len(f) = 1 /\ f[1].b = 0 /\ f[1].s \in NumericWords
ErrLine == "Error in line"

\* the try block of one line: exc when float() raises, add the events appended
BeiLineTry(line) ==
    LET parts == Parts(line) IN
    IF line = EmptyLine \/ Len(parts) < 2 THEN [exc |-> FALSE, add |-> <<>>]
    ELSE IF parts[2] # <<>> /\ ~IsNumeral(parts[2]) THEN [exc |-> TRUE, add |-> <<>>]
    ELSE LET prob == IF parts[2] = <<>> THEN 0 ELSE FloatOf(parts[2][1].s)
             base == [id |-> parts[1], probability |-> prob]
             named == IF Len(parts) > 2 THEN base @@ [name |-> parts[3]] ELSE base
             typed == IF Len(parts) > 3 THEN named @@ [type |-> parts[4]] ELSE named
         IN  [exc |-> FALSE, add |-> <<typed>>]

\* the loop body had it no try/except: the exception leaves the parser
BeiLineNoTry(st, line) ==
    LET r == BeiLineTry(line) IN
    IF st.raised THEN st
    ELSE IF r.exc THEN [st EXCEPT !.raised = TRUE]
    ELSE [st EXCEPT !.events = @ \o r.add]

\* one iteration of the loop over the lines: st = [events, errors, raised]
BeiLine(st, line) ==
    LET r == BeiLineTry(line) IN
    IF r.exc THEN [st EXCEPT !.errors = Append(@, ErrLine)]
    ELSE [st EXCEPT !.events = @ \o r.add]

RECURSIVE BeiLoop(_, _, _)
BeiLoop(lines, n, st) ==
    IF n > Len(lines) THEN st ELSE BeiLoop(lines, n + 1, BeiLine(st, lines[n]))

parse_bei_file(text) ==
    LET st == BeiLoop(StripText(text), 1, [events |-> <<>>, errors |-> <<>>, raised |-> FALSE])
    IN  IF st.raised
           THEN [type |-> "", data |-> <<>>, errors |-> <<>>, raised |-> TRUE]
           ELSE [type |-> "basic_event_info", data |-> [basic_events |-> st.events],
                 errors |-> st.errors, raised |-> FALSE]

\* ------------------------------------------------- saphire.parse_ftl_file
NoCurrent == << <<[b |-> 0 - 1, s |-> "None"]>> >>
GateWords == {"G1", "G2", "G3"}
StartsWithG(w) == w.b = 0 /\ w.s \in GateWords

\* line.split(',', 1)[1].split('=')[0].strip() of a header line
NameAfterFirstComma(l) == NormLine(BeforeEq(Tail(l)))

FtlHas(trees, name) == \E k \in 1..Len(trees) : trees[k].name = name
FtlIdx(trees, name) == CHOOSE k \in 1..Len(trees) : trees[k].name = name

\* the loop where a header starts its tree afresh
FtlLineReset(st, line) ==
    IF line = EmptyLine THEN st
    ELSE IF IsEtlHeader(line) THEN
        LET name == NameAfterFirstComma(line) IN
        [trees |-> IF FtlHas(st.trees, name)
                      THEN [st.trees EXCEPT ![FtlIdx(st.trees, name)].gates = <<>>]
                      ELSE Append(st.trees, [name |-> name, gates |-> <<>>, basic_events |-> {}]),
         cur |-> name]
    ELSE IF IsLine(line, "^EOS") THEN [st EXCEPT !.cur = NoCurrent]
    ELSE IF st.cur # NoCurrent /\ Len(WsSplit(line)) >= 2 THEN
        LET parts == WsSplit(line)
            k == FtlIdx(st.trees, st.cur)
        IN  [st EXCEPT !.trees[k].gates =
                Append(@, [id |-> parts[1], type |-> parts[2],
                           inputs |-> SubSeq(parts, 3, Len(parts))])]
    ELSE st

\* one iteration of the loop over the lines: st = [trees, cur]
FtlLine(st, line) ==
    IF line = EmptyLine THEN st
    ELSE IF IsEtlHeader(line) THEN
        LET name == NameAfterFirstComma(line) IN
        [trees |-> IF FtlHas(st.trees, name) THEN st.trees
                   ELSE Append(st.trees, [name |-> name, gates |-> <<>>, basic_events |-> {}]),
         cur |-> name]
    ELSE IF IsLine(line, "^EOS") THEN [st EXCEPT !.cur = NoCurrent]
    ELSE IF st.cur # NoCurrent THEN
        LET parts == WsSplit(line)
            k == FtlIdx(st.trees, st.cur)
        IN  IF Len(parts) >= 2
               THEN LET inputs == SubSeq(parts, 3, Len(parts))
                        gate == [id |-> parts[1], type |-> parts[2], inputs |-> inputs]
                        bes == {inputs[m] : m \in {x \in 1..Len(inputs) : ~StartsWithG(inputs[x])}}
                    IN  [st EXCEPT !.trees[k].gates = Append(@, gate),
                                   !.trees[k].basic_events = @ \cup bes]
               ELSE st
    ELSE st

RECURSIVE FtlLoop(_, _, _)
FtlLoop(lines, n, st) ==
    IF n > Len(lines) THEN st ELSE FtlLoop(lines, n + 1, FtlLine(st, lines[n]))

parse_ftl_file(text) ==
    LET st == FtlLoop(StripText(text), 1, [trees |-> <<>>, cur |-> NoCurrent])
    IN  [type |-> "fault_tree_logic", data |-> [fault_trees |-> st.trees],
         errors |-> <<>>, raised |-> FALSE]

\* ------------------------------------------------- saphire.parse_fad_file
parse_fad_file(text) ==
    LET parts == Parts(StripText(text)[1])
        project == IF Len(parts) >= 2
                      THEN [name |-> parts[1], description |-> parts[2]]
                      ELSE [name |-> <<>>, description |-> <<>>]
    IN  [type |-> "project_description", data |-> project, errors |-> <<>>, raised |-> FALSE]

\* ------------------------------------------------ saphire.parse_mard_file
parse_mard_file(text) ==
    [type |-> "mard_file",
     data |-> [raw_content |-> text, description |-> "MARD file is a reference to PRA data"],
     errors |-> <<>>, raised |-> FALSE]

\* -------------------------- saphire.parse_esd_file, saphire.parse_stl_file
\* "HTGR_PRA=" in line
HasHeaderWord(l) == \E f \in 1..Len(l) : \E k \in 1..Len(l[f]) : l[f][k].s = "HTGR_PRA="

StripOneBom(text) == IF StartsWithBom(text) THEN DropFirstChar(text) ELSE text

DescOf(parts) == IF Len(parts) > 1 THEN parts[2] ELSE <<>>

RECURSIVE EsdLoop(_, _, _)
EsdLoop(lines, n, acc) ==
    IF n > Len(lines) THEN acc
    ELSE LET parts == Parts(lines[n]) IN
         IF parts[1] = <<>> THEN EsdLoop(lines, n + 1, acc)
         ELSE EsdLoop(lines, n + 1,
                 Append(acc, [id |-> parts[1], name |-> parts[1], description |-> DescOf(parts)]))

parse_esd_file(text) ==
    LET lines == StripText(StripOneBom(text))
        start_idx == IF HasHeaderWord(lines[1]) THEN 2 ELSE 1
    IN  [type |-> "end_state_description",
         data |-> [end_states |-> EsdLoop(lines, start_idx, <<>>)],
         errors |-> <<>>, raised |-> FALSE]

RECURSIVE StlLoop(_, _, _)
StlLoop(lines, n, acc) ==
    IF n > Len(lines) THEN acc
    ELSE LET parts == Parts(lines[n]) IN
         IF parts[1] = <<>> THEN StlLoop(lines, n + 1, acc)
         ELSE StlLoop(lines, n + 1,
                 Append(acc, [id |-> parts[1], name |-> parts[1], description |-> DescOf(parts),
                              end_state |-> IF Len(parts) > 2 THEN parts[3] ELSE <<>>]))

parse_stl_file(text) ==
    LET lines == StripText(StripOneBom(text))
        start_idx == IF HasHeaderWord(lines[1]) THEN 2 ELSE 1
    IN  [type |-> "sequence_list",
         data |-> [sequences |-> StlLoop(lines, start_idx, <<>>)],
         errors |-> <<>>, raised |-> FALSE]

\* ------------------------------------------------- saphire.parse_sql_file
\* header.startswith('HTGR_PRA')
HeaderWords == {"HTGR_PRA", "HTGR_PRA="}
StartsHtgr(l) == FirstWord(l).b = 0 /\ FirstWord(l).s \in HeaderWords

\* term.strip('/')
Unslash(w) ==
    IF w.s = "/A" THEN [w EXCEPT !.s = "A"]
    ELSE IF w.s = "/B" THEN [w EXCEPT !.s = "B"]
    ELSE w

\* ' '.join of the non-empty lines: the words of the logic
RECURSIVE JoinWords(_)
JoinWords(ls) == IF ls = <<>> THEN <<>> ELSE WsSplit(Head(ls)) \o JoinWords(Tail(ls))

HasPeriod(ws) == \E k \in 1..Len(ws) : ws[k].s = "."
LastTerm(ws) ==
    LET ks == {k \in 1..Len(ws) : ws[k] # W(".")}
    IN  IF ks = {} THEN W("") ELSE Unslash(ws[CHOOSE k \in ks : \A j \in ks : j <= k])

\* the body of the loop over the blocks
SqlBlock(block, acc) ==
    IF StripText(block) = EmptyText THEN acc
    ELSE LET lines == StripText(block)
             header == lines[1]
         IN
         IF ~StartsHtgr(header) \/ Len(Parts(header)) < 3 THEN acc
         ELSE LET logic == JoinWords(Tail(lines))
                  base == [id |-> BeforeEq(<<header[3]>>)[1],
                           event_tree |-> header[2], logic |-> logic]
              IN  IF HasPeriod(logic) /\ LastTerm(logic) # W("")
                     THEN Append(acc, base @@ [end_state |-> LastTerm(logic)])
                     ELSE Append(acc, base)

RECURSIVE SqlLoop(_, _, _)
SqlLoop(blocks, n, acc) ==
    IF n > Len(blocks) THEN acc ELSE SqlLoop(blocks, n + 1, SqlBlock(blocks[n], acc))

parse_sql_file(text) ==
    [type |-> "sequence_list",
     data |-> [sequences |-> SqlLoop(SplitEos(StripOneBom(text)), 1, <<>>)],
     errors |-> <<>>, raised |-> FALSE]

\* ------------------------------------------------- saphire.parse_sqd_file
\* one iteration of the loop over the lines: st = [sequences, cur]
SqdLine(st, line) ==
    IF line = EmptyLine THEN st
    ELSE IF IsEtlHeader(line) THEN [st EXCEPT !.cur = NameAfterFirstComma(line)]
    ELSE LET parts == Parts(line)
             seq_id == parts[1]
             base == [id |-> seq_id, event_tree |-> st.cur, name |-> seq_id,
                      description |-> IF Len(parts) > 1 /\ parts[2] # <<>>
                                         THEN parts[2]
                                         ELSE <<W("Sequence")>> \o seq_id]
             flagged == IF Len(parts) > 2 /\ parts[3] # <<>>
                           THEN base @@ [flag_set |-> parts[3]] ELSE base
             full == IF Len(parts) > 3 /\ parts[4] # <<>>
                        THEN flagged @@ [project |-> parts[4]] ELSE flagged
         IN  IF seq_id = <<>> THEN st ELSE [st EXCEPT !.sequences = Append(@, full)]

RECURSIVE SqdLoop(_, _, _)
SqdLoop(lines, n, st) ==
    IF n > Len(lines) THEN st ELSE SqdLoop(lines, n + 1, SqdLine(st, lines[n]))

parse_sqd_file(text) ==
    LET st == SqdLoop(StripText(StripOneBom(text)), 1, [sequences |-> <<>>, cur |-> NoCurrent])
    IN  [type |-> "sequence_list", data |-> [sequences |-> st.sequences],
         errors |-> <<>>, raised |-> FALSE]

\* --------------------------------------------- saphire.parse_saphire_file
Formats == {".BEI", ".FTL", ".ETL", ".FAD", ".MARD", ".ESD", ".STL", ".SQL", ".SQD"}

parse_saphire_file(file_ext, text) ==
    CASE file_ext = ".BEI" -> parse_bei_file(text)
      [] file_ext = ".FTL" -> parse_ftl_file(text)
      [] file_ext = ".ETL" -> parse_etl_file(text)
      [] file_ext = ".FAD" -> parse_fad_file(text)
      [] file_ext = ".MARD" -> parse_mard_file(text)
      [] file_ext = ".ESD" -> parse_esd_file(text)
      [] file_ext = ".STL" -> parse_stl_file(text)
      [] file_ext = ".SQL" -> parse_sql_file(text)
      [] file_ext = ".SQD" -> parse_sqd_file(text)
      [] OTHER -> [type |-> "unknown", data |-> <<>>,
                   errors |-> <<"Unknown file type">>, raised |-> FALSE]
\* ----------------------------------------- the texts of the other formats
\* A text is built line by line from the lines a file of the format holds
\* (well-formed ones, ones with too few fields, an empty one, one of
\* replacement characters), then prefixed with byte-order marks.
Vocabulary(ext) ==
    CASE ext = ".BEI" ->
            {Csv(<<"BE1", "0.01", "Pump">>), Csv(<<"BE2", "abc">>), Line1("BE3"),
             Csv(<<"BE4", "">>), EmptyLine, NoiseLine}
      [] ext = ".FTL" ->
            {<< <<W("HTGR_PRA")>>, <<W("FT1"), W("=")>> >>,
             << <<W("HTGR_PRA")>>, <<W("FT2"), W("=")>> >>,
             Words(<<"G1", "OR", "G2", "BE1">>), Words(<<"G2", "TRAN">>),
             Line1("^EOS"), NoiseLine}
      [] ext = ".FAD" -> {Csv(<<"HTGR_PRA", "Demo">>), Line1("HTGR_PRA"), EmptyLine, NoiseLine}
      [] ext = ".MARD" -> {Line1("HTGR_PRA"), EmptyLine, NoiseLine}
      [] ext = ".ESD" -> {Line1("HTGR_PRA="), Csv(<<"OK", "fine">>), Line1("CD"), EmptyLine}
      [] ext = ".STL" -> {Line1("HTGR_PRA="), Csv(<<"S1", "d", "OK">>), Line1("S2"), EmptyLine}
      [] ext = ".SQL" ->
            {<< <<W("HTGR_PRA")>>, <<W("ET1")>>, <<W("S1"), W("=")>> >>,
             Csv(<<"HTGR_PRA", "ET1">>), Words(<<"A", "/B", ".">>), Line1("^EOS"), EmptyLine}
      [] ext = ".SQD" ->
            {<< <<W("HTGR_PRA")>>, <<W("ET1"), W("=")>> >>,
             Csv(<<"S1", "d", "f", "p">>), Line1("S2"), EmptyLine}
      [] OTHER -> {}

LeadingBoms(t) == IF StartsWithBom(t) THEN t[1][1][1].b ELSE 0

\* the text without its leading byte-order marks
RECURSIVE WithoutLeadingBoms(_)
WithoutLeadingBoms(t) ==
    IF StartsWithBom(t) THEN WithoutLeadingBoms(DropFirstChar(t)) ELSE t


\* ------------------------------------------------------- the Python heap
\* Objects that a caller can reach through two references live in heap, a
\* sequence indexed by address.  A dict is [kind, v] with v a function of
\* its keys, a list is [kind, v] with v a sequence.  A value is a string, a
\* reference or, for a structure built once and never written again, the
\* structure itself.
Str(s) == [str |-> s]
Ref(a) == [ref |-> a]
Val(x) == [val |-> x]
NewDict(f) == [kind |-> "dict", v |-> f]
NewList == [kind |-> "list", v |-> <<>>]
EmptyDict == NewDict(<<>>)

IsRef(x) == DOMAIN x = {"ref"}
IsDict(h, x) == IsRef(x) /\ h[x.ref].kind = "dict"
IsList(h, x) == IsRef(x) /\ h[x.ref].kind = "list"
HasKey(h, a, k) == k \in DOMAIN h[a].v
\* the address held under key k of the dict at a
At(h, a, k) == h[a].v[k].ref
\* d[k] = x on the dict at a
HSet(h, a, k, x) == [h EXCEPT ![a].v = DictSet(@, k, x)]
\* l.append(x) on the list at a
HAppend(h, a, x) == [h EXCEPT ![a].v = Append(@, x)]
\* r.get(k, default) on a record given by value
GetOr(r, k, default) == IF k \in DOMAIN r THEN r[k] ELSE default

\* ------------------------------------------------------------- openpra.py
SCHEMA_VERSIONS == {"1.0.0", "1.1.0", "2.0.0"}
SCHEMA_VERSION == "2.0.0"

\* the module-level template and the objects it refers to
OPENPRA_SCHEMA == 1
TemplateHeap ==
    << NewDict([version |-> Str(SCHEMA_VERSION), metadata |-> Ref(2), models |-> Ref(4),
                analysis |-> Ref(11), lmp |-> Ref(15)]),
       NewDict([title |-> Str(""), description |-> Str(""), created_date |-> Str(""),
                source |-> Str(""), schema_version |-> Str(SCHEMA_VERSION),
                attributes |-> Ref(3)]),
       EmptyDict,
       NewDict([fault_trees |-> Ref(5), event_trees |-> Ref(6), basic_events |-> Ref(7),
                initiating_events |-> Ref(8), end_states |-> Ref(9), sequences |-> Ref(10)]),
       NewList, NewList, NewList, NewList, NewList, NewList,
       NewDict([quantifications |-> Ref(12), importance_measures |-> Ref(13),
                uncertainty |-> Ref(14)]),
       NewList, NewList, EmptyDict,
       NewDict([lbes |-> Ref(16), sscs |-> Ref(17), drm |-> Ref(18)]),
       NewList, NewList, EmptyDict >>

\* create_empty_schema(version): the heap after the call and the address
\* returned.  dict.copy() makes a new top-level dict whose values are the
\* references the template holds.
create_empty_schema(h, version) ==
    LET v1 == IF version = "None" THEN SCHEMA_VERSION ELSE version
        v2 == IF v1 \notin SCHEMA_VERSIONS THEN SCHEMA_VERSION ELSE v1
        schema == Len(h) + 1
        h1 == Append(h, NewDict(h[OPENPRA_SCHEMA].v))
        h2 == HSet(h1, schema, "version", Str(v2))
        h3 == HSet(h2, At(h2, schema, "metadata"), "schema_version", Str(v2))
        h4 == HSet(h3, At(h3, schema, "metadata"), "created_date", Str("now"))
    IN  [heap |-> h4, ret |-> schema]

\* validate_models(models): models is the address of the models dict
EntriesHave(h, list, keys) ==
    \A n \in 1..Len(h[list].v) :
        /\ IsDict(h, h[list].v[n])
        /\ \A k \in keys : HasKey(h, h[list].v[n].ref, k)

validate_models(h, models) ==
    /\ EntriesHave(h, At(h, models, "fault_trees"), {"id", "gates"})
    /\ EntriesHave(h, At(h, models, "event_trees"), {"id", "sequences"})
    /\ EntriesHave(h, At(h, models, "basic_events"), {"id"})

ModelKeysV1 == {"fault_trees", "event_trees", "basic_events", "end_states"}
ModelKeysV2 == {"fault_trees", "event_trees", "basic_events", "initiating_events",
                "end_states", "sequences"}
LmpKeys == {"lbes", "sscs", "drm"}

ModelsAreLists(h, data, keys) ==
    /\ IsDict(h, h[data].v["metadata"])
    /\ IsDict(h, h[data].v["models"])
    /\ \A k \in keys :
          /\ HasKey(h, At(h, data, "models"), k)
          /\ IsList(h, h[At(h, data, "models")].v[k])

validate_schema_v1(h, data) ==
    /\ ModelsAreLists(h, data, ModelKeysV1)
    /\ validate_models(h, At(h, data, "models"))

validate_schema_v2(h, data) ==
    /\ ModelsAreLists(h, data, ModelKeysV2)
    /\ HasKey(h, data, "lmp")
    /\ IsDict(h, h[data].v["lmp"])
    /\ \A k \in LmpKeys : HasKey(h, At(h, data, "lmp"), k)
    /\ validate_models(h, At(h, data, "models"))

\* validate_schema(data): is_valid
validate_schema(h, data) ==
    /\ \A k \in {"version", "metadata", "models"} : HasKey(h, data, k)
    /\ DOMAIN h[data].v["version"] = {"str"}
    /\ h[data].v["version"].str \in SCHEMA_VERSIONS
    /\ IF h[data].v["version"].str = "2.0.0"
          THEN validate_schema_v2(h, data)
          ELSE validate_schema_v1(h, data)

\* upgrade_1_0_to_1_1: model["attributes"] = {} on every entry without one
RECURSIVE AddAttributes(_, _, _)
AddAttributes(h, list, n) ==
    IF n > Len(h[list].v) THEN h
    ELSE LET model == h[list].v[n].ref IN
         IF HasKey(h, model, "attributes") THEN AddAttributes(h, list, n + 1)
         ELSE LET h1 == Append(h, EmptyDict)
              IN  AddAttributes(HSet(h1, model, "attributes", Ref(Len(h1))), list, n + 1)

\* d[k1][k2] = x on the dict at a
SetIn(h, a, k1, k2, x) == HSet(h, At(h, a, k1), k2, x)

\* "for model in upgraded["models"][model_type]" for one model_type
AddAttributesOf(h, upgraded, model_type) ==
    AddAttributes(h, At(h, At(h, upgraded, "models"), model_type), 1)

\* upgrade_1_0_to_1_1(data): data.copy() is a new top-level dict whose
\* values are the references data holds
upgrade_1_0_to_1_1(h, data) ==
    [heap |-> AddAttributesOf(AddAttributesOf(AddAttributesOf(AddAttributesOf(
                  SetIn(HSet(Append(h, NewDict(h[data].v)), Len(h) + 1, "version", Str("1.1.0")),
                        Len(h) + 1, "metadata", "schema_version", Str("1.1.0")),
                  Len(h) + 1, "fault_trees"), Len(h) + 1, "event_trees"),
                  Len(h) + 1, "basic_events"), Len(h) + 1, "end_states"),
     ret |-> Len(h) + 1, success |-> TRUE, message |-> "Upgraded from 1.0.0 to 1.1.0"]

\* "for key, value in data["metadata"].items()": every key but
\* schema_version is set in the dict at um
CopyMetadata(h, um, sm) ==
    [h EXCEPT ![um].v = [k \in DOMAIN @ \cup (DOMAIN h[sm].v \ {"schema_version"}) |->
                            IF k \in DOMAIN h[sm].v \ {"schema_version"}
                               THEN h[sm].v[k] ELSE @[k]]]

\* upgraded["models"][key] = data["models"][key]
CopyList(h, upgraded, data, key) ==
    HSet(h, At(h, upgraded, "models"), key, h[At(h, data, "models")].v[key])

\* upgraded["models"][key] = data["models"][key] if present, else = []
CopyOrNewList(h, upgraded, data, key) ==
    IF HasKey(h, At(h, data, "models"), key) THEN CopyList(h, upgraded, data, key)
    ELSE HSet(Append(h, NewList), At(h, upgraded, "models"), key, Ref(Len(h) + 1))

\* upgraded["analysis"] = data["analysis"] if present
CopyAnalysis(h, upgraded, data) ==
    IF HasKey(h, data, "analysis") THEN HSet(h, upgraded, "analysis", h[data].v["analysis"])
    ELSE h

\* upgrade_1_1_to_2_0 after upgraded = create_empty_schema("2.0.0")
CopyInto(h, upgraded, data) ==
    CopyAnalysis(
        CopyOrNewList(CopyOrNewList(
            CopyList(CopyList(CopyList(CopyList(
                CopyMetadata(h, At(h, upgraded, "metadata"), At(h, data, "metadata")),
                upgraded, data, "fault_trees"), upgraded, data, "event_trees"),
                upgraded, data, "basic_events"), upgraded, data, "end_states"),
            upgraded, data, "initiating_events"), upgraded, data, "sequences"),
        upgraded, data)

\* upgrade_1_1_to_2_0(data)
upgrade_1_1_to_2_0(h, data) ==
    [heap |-> CopyInto(create_empty_schema(h, "2.0.0").heap, Len(h) + 1, data),
     ret |-> Len(h) + 1, success |-> TRUE, message |-> "Upgraded from 1.1.0 to 2.0.0"]

\* the second step of the two-step upgrade, on what the first returned
SecondStep(u) == upgrade_1_1_to_2_0(u.heap, u.ret)

\* upgrade_schema(data, target_version): the heap after the call and the
\* tuple returned
upgrade_schema(h, data, target_version) ==
    LET same(message, success) ==
            [heap |-> h, ret |-> data, success |-> success, message |-> message]
    IN  IF ~HasKey(h, data, "version") THEN same("No version information in data", FALSE)
        ELSE LET current_version == h[data].v["version"].str IN
             IF current_version = target_version
                 THEN same("Already at target version", TRUE)
             ELSE IF current_version \notin SCHEMA_VERSIONS
                 THEN same("Unknown source version", FALSE)
             ELSE IF target_version \notin SCHEMA_VERSIONS
                 THEN same("Unknown target version", FALSE)
             ELSE IF current_version = "1.0.0" /\ target_version = "1.1.0"
                 THEN upgrade_1_0_to_1_1(h, data)
             ELSE IF current_version = "1.1.0" /\ target_version = "2.0.0"
                 THEN upgrade_1_1_to_2_0(h, data)
             ELSE IF current_version = "1.0.0" /\ target_version = "2.0.0"
                 THEN SecondStep(upgrade_1_0_to_1_1(h, data))
             ELSE same("No upgrade path", FALSE)

\* ------------------------------------------------------------ converter.py
\* normalize_gate_type: upper() over the gate types read
Upper(t) ==
    CASE t = "and" -> "AND" [] t = "or" -> "OR" [] t = "a" -> "A" [] t = "o" -> "O"
      [] t = "n" -> "N" [] t = "x" -> "X" [] t = "tran" -> "TRAN"
      [] t = "And" -> "AND" [] t = "not" -> "NOT" [] t = "xor" -> "XOR"
      [] t = "nand" -> "NAND" [] t = "Nor" -> "NOR" [] t = "foo" -> "FOO"
      [] OTHER -> t

\* the lookup made on the string as it is given
NormalizeCaseSensitive(gate_type) ==
    IF gate_type \in {"AND", "OR", "NOT", "XOR"} THEN gate_type
    ELSE CASE gate_type = "A" -> "AND" [] gate_type = "O" -> "OR" [] gate_type = "N" -> "NOT"
           [] gate_type = "X" -> "XOR" [] gate_type = "NAND" -> "NAND"
           [] gate_type = "NOR" -> "NOR" [] OTHER -> "OR"

normalize_gate_type(gate_type) ==
    LET g == Upper(gate_type) IN
    IF g \in {"AND", "OR", "NOT", "XOR"} THEN g
    ELSE CASE g = "A" -> "AND" [] g = "O" -> "OR" [] g = "N" -> "NOT" [] g = "X" -> "XOR"
           [] g = "NAND" -> "NAND" [] g = "NOR" -> "NOR" [] OTHER -> "OR"

\* input_id.startswith("G") over the ids read
GateIds == {"G1", "G2"}

convert_gates(saphire_gates) ==
    [n \in 1..Len(saphire_gates) |->
        LET gate == saphire_gates[n]
            ins == GetOr(gate, "inputs", <<>>)
        IN  [id |-> GetOr(gate, "id", "unknown"),
             type |-> normalize_gate_type(GetOr(gate, "type", "OR")),
             inputs |-> [m \in 1..Len(ins) |->
                            [id |-> ins[m],
                             type |-> IF ins[m] \in GateIds THEN "gate" ELSE "basic_event"]]]]

convert_basic_events_references(ids) == [n \in 1..Len(ids) |-> [id |-> ids[n]]]

\* the paths read are empty or hold dicts with event and state
convert_sequences(seqs) ==
    [n \in 1..Len(seqs) |->
        LET path == GetOr(seqs[n], "path", <<>>) IN
        [id |-> GetOr(seqs[n], "id", "unknown"),
         end_state |-> GetOr(seqs[n], "end_state", ""),
         path |-> [m \in 1..Len(path) |-> [event |-> path[m].event, success |-> path[m].state]]]]

WithAttributes(d, src) ==
    IF "attributes" \in DOMAIN src THEN DictSet(d, "attributes", Val(src.attributes)) ELSE d

FaultTreeEntry(ft) ==
    WithAttributes([id |-> Str(GetOr(ft, "id", "unknown")),
                    name |-> Str(GetOr(ft, "name", "Unnamed Fault Tree")),
                    description |-> Str(GetOr(ft, "description", "")),
                    gates |-> Val(convert_gates(GetOr(ft, "gates", <<>>))),
                    basic_events |-> Val(convert_basic_events_references(
                                             GetOr(ft, "basic_events", <<>>)))], ft)

EventTreeEntry(et) ==
    WithAttributes([id |-> Str(GetOr(et, "id", "unknown")),
                    name |-> Str(GetOr(et, "name", "Unnamed Event Tree")),
                    description |-> Str(GetOr(et, "description", "")),
                    initiating_event |-> Str(GetOr(et, "initiating_event", "")),
                    sequences |-> Val(convert_sequences(GetOr(et, "sequences", <<>>)))], et)

BasicEventEntry(be) ==
    WithAttributes([id |-> Str(GetOr(be, "id", "unknown")),
                    name |-> Str(GetOr(be, "name", "Unnamed Basic Event")),
                    probability |-> Val(GetOr(be, "probability", 0)),
                    description |-> Str(GetOr(be, "description", ""))], be)

EndStateEntry(es) ==
    WithAttributes([id |-> Str(GetOr(es, "id", "unknown")),
                    name |-> Str(GetOr(es, "name", "Unnamed End State")),
                    description |-> Str(GetOr(es, "description", ""))], es)

\* f"PRA Model: {name}"
Title(name) == Val(<<"PRA Model: ", name>>)

\* one iteration of a loop of convert_saphire_model: the new dict is
\* appended to the list openpra_data["models"][key]
AppendEntry(h, data, key, entry) ==
    LET list == At(h, At(h, data, "models"), key)
        h1 == Append(h, NewDict(entry))
    IN  HAppend(h1, list, Ref(Len(h1)))

RECURSIVE ConvertFaultTrees(_, _, _, _)
ConvertFaultTrees(h, data, src, n) ==
    IF n > Len(src) THEN h
    ELSE ConvertFaultTrees(AppendEntry(h, data, "fault_trees", FaultTreeEntry(src[n])),
                           data, src, n + 1)

RECURSIVE ConvertEventTrees(_, _, _, _)
ConvertEventTrees(h, data, src, n) ==
    IF n > Len(src) THEN h
    ELSE ConvertEventTrees(AppendEntry(h, data, "event_trees", EventTreeEntry(src[n])),
                           data, src, n + 1)

RECURSIVE ConvertBasicEvents(_, _, _, _)
ConvertBasicEvents(h, data, src, n) ==
    IF n > Len(src) THEN h
    ELSE ConvertBasicEvents(AppendEntry(h, data, "basic_events", BasicEventEntry(src[n])),
                            data, src, n + 1)

RECURSIVE ConvertEndStates(_, _, _, _)
ConvertEndStates(h, data, src, n) ==
    IF n > Len(src) THEN h
    ELSE ConvertEndStates(AppendEntry(h, data, "end_states", EndStateEntry(src[n])),
                          data, src, n + 1)

\* project["attributes"] copied key by key into metadata["attributes"]
RECURSIVE CopyAttributes(_, _, _, _)
CopyAttributes(h, attrs, src, keys) ==
    IF keys = {} THEN h
    ELSE LET k == CHOOSE x \in keys : TRUE
         IN  CopyAttributes(HSet(h, attrs, k, Str(src[k])), attrs, src, keys \ {k})

convert_saphire_model(h, saphire_model, openpra_data) ==
    LET meta == At(h, openpra_data, "metadata")
        project == GetOr(saphire_model, "project", <<>>)
        h1 == IF "project" \in DOMAIN saphire_model
                 THEN LET t == HSet(h, meta, "title", Title(GetOr(project, "name", "Unnamed")))
                          d == HSet(t, meta, "description", Str(GetOr(project, "description", "")))
                      IN  IF "attributes" \in DOMAIN project
                             THEN CopyAttributes(d, At(d, meta, "attributes"),
                                                 project.attributes, DOMAIN project.attributes)
                             ELSE d
                 ELSE h
        h2 == ConvertFaultTrees(h1, openpra_data, GetOr(saphire_model, "fault_trees", <<>>), 1)
        h3 == ConvertEventTrees(h2, openpra_data, GetOr(saphire_model, "event_trees", <<>>), 1)
        h4 == ConvertBasicEvents(h3, openpra_data, GetOr(saphire_model, "basic_events", <<>>), 1)
    IN  ConvertEndStates(h4, openpra_data, GetOr(saphire_model, "end_states", <<>>), 1)

\* None, and the test convert_saphire_model makes first: "project" in None
\* raises TypeError
None == [none |-> TRUE]
IsNone(x) == DOMAIN x = {"none"}

\* to_openpra(data): the heap after the call, the address returned and the
\* outcome of validate_schema, which is logged only.  The documents read
\* hold no per-file records, so the legacy branch converts nothing.  When
\* convert_saphire_model raises, the exception leaves to_openpra: nothing is
\* returned, which ret = 0 stands for, and the new top-level dict, which
\* nothing refers to, is freed.
to_openpra(h, data) ==
    LET c == create_empty_schema(h, "None")
        openpra_data == c.ret
        meta == At(c.heap, openpra_data, "metadata")
        h1 == HSet(c.heap, meta, "title", Str("Converted from SAPHIRE"))
        h2 == HSet(h1, meta, "source", Str("SAPHIRE Import"))
        h3 == IF "saphire_data" \in DOMAIN data THEN
                  LET saphire_model == data.saphire_data
                      job_id == GetOr(data, "job_id", "unknown")
                      j1 == HSet(h2, meta, "job_id", Str(job_id))
                      j2 == HSet(j1, meta, "description", Val(<<"Data from job ", job_id>>))
                      j3 == HSet(j2, meta, "file_count",
                                 Val(GetOr(GetOr(data, "metadata", <<>>), "total_files", 0)))
                      j4 == IF /\ "project" \in DOMAIN saphire_model
                               /\ "name" \in DOMAIN saphire_model.project
                               THEN HSet(j3, meta, "title", Title(saphire_model.project.name))
                               ELSE j3
                  IN  IF IsNone(saphire_model) THEN j4
                      ELSE convert_saphire_model(j4, saphire_model, openpra_data)
              ELSE IF {"project", "fault_trees", "event_trees"} \subseteq DOMAIN data
                  THEN convert_saphire_model(h2, data, openpra_data)
                  ELSE h2
        raised == "saphire_data" \in DOMAIN data /\ IsNone(data.saphire_data)
    IN  [heap |-> IF raised THEN SubSeq(h3, 1, Len(h)) ELSE h3,
         ret |-> IF raised THEN 0 ELSE openpra_data,
         valid |-> ~raised /\ validate_schema(h3, openpra_data)]

\* ------------------------------------------------- the documents converted
Gate1 == [id |-> "G1", type |-> "or", inputs |-> <<"G2", "BE1">>]
Model1131 ==
    [project |-> [name |-> "Demo", description |-> "demo plant"],
     fault_trees |-> <<[id |-> "FT1", name |-> "FT1", gates |-> <<Gate1>>,
                        basic_events |-> <<"BE1">>]>>,
     event_trees |-> <<[id |-> "ET1", name |-> "ET1", initiating_event |-> "IE-ET1",
                        sequences |-> <<[id |-> "S1", end_state |-> "OK"]>>]>>,
     basic_events |-> <<[id |-> "BE1", name |-> "Pump", probability |-> 10],
                        [id |-> "BE2", probability |-> 500],
                        [id |-> "BE3"]>>,
     end_states |-> <<[id |-> "OK", name |-> "OK"]>>]
Model1000 ==
    [project |-> [name |-> "Solo", attributes |-> [plant |-> "HTGR"]],
     fault_trees |-> <<[id |-> "FT2", gates |-> <<>>]>>,
     event_trees |-> <<>>]
Model0000 == [fault_trees |-> <<>>, event_trees |-> <<>>, basic_events |-> <<>>,
              end_states |-> <<>>]
\* a job wrapper, a direct model, a job without trees, a document of the
\* legacy shape without files, a job whose saphire_data is null, a job whose
\* saphire_data is empty
Docs ==
    << [job_id |-> "job1", metadata |-> [total_files |-> 5], saphire_data |-> Model1131],
       Model1000,
       [saphire_data |-> Model0000],
       [files |-> <<>>],
       [job_id |-> "job2", saphire_data |-> None],
       [saphire_data |-> <<>>] >>

\* the SAPHIRE model a document holds
DocModel(data) ==
    IF "saphire_data" \in DOMAIN data THEN data.saphire_data
    ELSE IF {"project", "fault_trees", "event_trees"} \subseteq DOMAIN data THEN data
    ELSE <<>>
CountOf(data, key) == Len(GetOr(DocModel(data), key, <<>>))

\* the list instance["models"][key] as it is read through the instance
ModelList(h, inst, key) == h[At(h, At(h, inst, "models"), key)].v
\* the objects reachable from a top-level dict
Reach(h, inst) ==
    LET l1 == {h[inst].v[k].ref : k \in {x \in DOMAIN h[inst].v : IsRef(h[inst].v[x])}}
        l2 == UNION {{h[a].v[k].ref : k \in {x \in DOMAIN h[a].v : IsRef(h[a].v[x])}} : a \in l1}
    IN  l1 \cup l2

\* ------------------------------------------- saphire.validate_basic_event
\* A probability is a Python value: a number (int or float, in
\* thousandths), a float that is no number or no finite one, a bool, a
\* string or None.
Num(x) == [num |-> x]
NaN == [float |-> "nan"]
Inf == [float |-> "inf"]
Bool(b) == [bool |-> b]
IsNum(p) == DOMAIN p = {"num"}

\* isinstance(prob, (int, float)): bool is a subclass of int
IsIntOrFloat(p) == DOMAIN p \in {{"num"}, {"float"}, {"bool"}}
\* prob < 0 and prob > 1: every comparison with nan is False, True is 1
LessThanZero(p) == IsNum(p) /\ p.num < 0
GreaterThanOne(p) == (IsNum(p) /\ p.num > 1000) \/ p = Inf

\* validate_basic_event(basic_event): (is_valid, message)
validate_basic_event(basic_event) ==
    IF "id" \notin DOMAIN basic_event THEN <<FALSE, "Missing required field: id">>
    ELSE IF "name" \notin DOMAIN basic_event THEN <<FALSE, "Missing required field: name">>
    ELSE IF "probability" \notin DOMAIN basic_event
        THEN <<FALSE, "Missing required field: probability">>
    ELSE IF \/ ~IsIntOrFloat(basic_event.probability)
            \/ LessThanZero(basic_event.probability)
            \/ GreaterThanOne(basic_event.probability)
        THEN <<FALSE, "Probability must be a number between 0 and 1">>
    ELSE <<TRUE, "Valid">>

\* ------------------------------------------- extractor.determine_file_type
\* the category of an extension in SAPHIRE_EXTENSIONS, splitext()[1].upper()
\* applied; else text, json or binary by the lower-cased extension
determine_file_type(ext) ==
    CASE ext \in {".FTL", ".FTD", ".FTA", ".FTC", ".FTT", ".FTY"} -> "fault_tree"
      [] ext \in {".ETL", ".ETD", ".ETA"} -> "event_tree"
      [] ext \in {".BEI", ".BEC", ".BED", ".BEA", ".BET", ".BEF", ".BEG", ".BEH"} -> "basic_event"
      [] ext \in {".ESL", ".ESD", ".ESA", ".ESC", ".ESI"} -> "end_state"
      [] ext \in {".STL", ".STD", ".STA", ".SQL", ".SQD", ".SQC", ".SQP", ".SQY", ".SQA"} -> "sequence"
      [] ext \in {".FAD", ".PRF", ".PRF2", ".PHD", ".HID", ".MTD", ".FAA", ".FAT", ".FAU"} -> "project"
      [] ext \in {".MARD", ".EGI", ".EGD"} -> "master_db"
      [] ext = ".JSON" -> "json"
      [] ext \in {".ZIP", ".GZ", ".TAR", ".BIN", ".EXE"} -> "binary"
      [] OTHER -> "text"

SaphireTypes == {"fault_tree", "event_tree", "basic_event", "end_state", "sequence",
                 "project", "master_db"}

\* ------------------------------------------------- extractor.analyze_files
\* A file of the extracted archive is [root, name, ext, text, readable]:
\* the directory os.walk yields it in, its name, splitext(name)[1].upper(),
\* its text and whether open() succeeds.  The Unified Document is a record;
\* `files` is a function of the relative paths.

\* file.startswith('._') or file == '.DS_Store' or '/__MACOSX/' in root,
\* over the names and the directories of the archives enumerated
Roots == {"/job", "/job/sub", "/job/__MACOSX", "/job/__MACOSX/sub"}
IsMetadataFile(file) ==
    \/ file.name \in {"._a.FTL"}
    \/ file.name = ".DS_Store"
    \/ file.root \in {"/job/__MACOSX/sub"}

\* os.path.relpath(os.path.join(root, file), directory)
rel_path(file) == <<file.root, file.name>>

\* str.lower() over the tree names read
Lower(s) == CASE s = "Unknown" -> "unknown" [] s = "UNKNOWN" -> "unknown" [] OTHER -> s

\* the test of the name left out: every tree is kept
AnyName(tree_name) == FALSE

\* not tree_name or tree_name.lower() == 'unknown'
InvalidName(tree_name) ==
    \/ tree_name = <<>>
    \/ Len(tree_name) = 1 /\ tree_name[1].b = 0 /\ Lower(tree_name[1].s) = "unknown"

\* any(e.get('id') == id for e in list)
AnyId(list, id) == \E n \in 1..Len(list) : "id" \in DOMAIN list[n] /\ list[n].id = id

\* what parse_saphire_file returns, as the dict it is
AsDict(parsed_data) == [type |-> parsed_data.type, data |-> parsed_data.data,
                        errors |-> parsed_data.errors]

RECURSIVE AddFaultTrees(_, _, _)
AddFaultTrees(list, trees, n) ==
    IF n > Len(trees) THEN list
    ELSE AddFaultTrees(Append(list, [id |-> trees[n].name, name |-> trees[n].name,
                                     gates |-> trees[n].gates,
                                     basic_events |-> trees[n].basic_events]), trees, n + 1)

\* the end states of the sequences of the trees that are kept
RECURSIVE EndStatesOf(_)
EndStatesOf(seqs) ==
    IF seqs = <<>> THEN {}
    ELSE (IF "end_state" \in DOMAIN Head(seqs) /\ Head(seqs).end_state # <<>>
             THEN {Head(seqs).end_state} ELSE {}) \cup EndStatesOf(Tail(seqs))

\* the loop over the trees of an ETL file: st = [event_trees, end_states_set]
RECURSIVE AddEventTrees(_, _, _)
AddEventTrees(st, trees, n) ==
    IF n > Len(trees) THEN st
    ELSE IF InvalidName(trees[n].name) THEN AddEventTrees(st, trees, n + 1)
    ELSE AddEventTrees(
            [event_trees |-> Append(st.event_trees,
                                [id |-> trees[n].name, name |-> trees[n].name,
                                 top_events |-> trees[n].top_events,
                                 sequences |-> trees[n].sequences,
                                 node_descriptions |-> trees[n].node_descriptions,
                                 node_substitutions |-> trees[n].node_substitutions]),
             end_states_set |-> st.end_states_set \cup EndStatesOf(trees[n].sequences)],
            trees, n + 1)

\* the loop over end_states_set, which a set iterates in the order `order`
RECURSIVE AddImplicitEndStates(_, _, _)
AddImplicitEndStates(list, order, n) ==
    IF n > Len(order) THEN list
    ELSE AddImplicitEndStates(
            IF AnyId(list, order[n]) THEN list
            ELSE Append(list, [id |-> order[n], name |-> order[n],
                               description |-> <<W("End"), W("state")>> \o order[n]]),
            order, n + 1)

RECURSIVE AddBasicEvents(_, _, _)
AddBasicEvents(list, events, n) ==
    IF n > Len(events) THEN list
    ELSE AddBasicEvents(
            Append(list, [id |-> events[n].id,
                          name |-> GetOr(events[n], "name", events[n].id),
                          probability |-> GetOr(events[n], "probability", 0),
                          description |-> GetOr(events[n], "name", <<>>)]),
            events, n + 1)

RECURSIVE AddEndStates(_, _, _)
AddEndStates(list, end_states, n) ==
    IF n > Len(end_states) THEN list
    ELSE AddEndStates(
            IF AnyId(list, end_states[n].id) THEN list
            ELSE Append(list, [id |-> end_states[n].id,
                               name |-> GetOr(end_states[n], "name", end_states[n].id),
                               description |-> GetOr(end_states[n], "description", <<>>)]),
            end_states, n + 1)

RECURSIVE AddSequences(_, _, _)
AddSequences(list, sequences, n) ==
    IF n > Len(sequences) THEN list
    ELSE AddSequences(
            IF AnyId(list, sequences[n].id) THEN list
            ELSE Append(list, [id |-> sequences[n].id,
                               name |-> GetOr(sequences[n], "name", sequences[n].id),
                               description |-> GetOr(sequences[n], "description", <<>>),
                               end_state |-> GetOr(sequences[n], "end_state", <<>>)]),
            sequences, n + 1)

\* "Add data to appropriate category": saphire_data after the file.  Every
\* parser returns its own type or the skeleton of type "unknown" with empty
\* data, so the branches for other non-empty data are not taken.
AddData(sd, file_type, parsed_data, order) ==
    CASE file_type = "fault_tree" ->
            IF parsed_data.type = "fault_tree_logic"
               THEN [sd EXCEPT !.fault_trees = AddFaultTrees(@, parsed_data.data.fault_trees, 1)]
               ELSE [sd EXCEPT !.fault_trees = Append(@, AsDict(parsed_data))]
      [] file_type = "event_tree" ->
            IF parsed_data.type = "event_tree_logic"
               THEN LET st == AddEventTrees([event_trees |-> sd.event_trees,
                                             end_states_set |-> {}],
                                            parsed_data.data.event_trees, 1)
                    IN  [sd EXCEPT !.event_trees = st.event_trees,
                                   !.end_states = AddImplicitEndStates(@, order, 1)]
               ELSE sd
      [] file_type = "basic_event" ->
            IF parsed_data.type = "basic_event_info"
               THEN [sd EXCEPT !.basic_events = AddBasicEvents(@, parsed_data.data.basic_events, 1)]
               ELSE [sd EXCEPT !.basic_events = Append(@, AsDict(parsed_data))]
      [] file_type = "end_state" ->
            IF parsed_data.type = "end_state_description"
               THEN [sd EXCEPT !.end_states = AddEndStates(@, parsed_data.data.end_states, 1)]
               ELSE [sd EXCEPT !.end_states = Append(@, AsDict(parsed_data))]
      [] file_type = "sequence" ->
            IF parsed_data.type = "sequence_list"
               THEN [sd EXCEPT !.sequences = AddSequences(@, parsed_data.data.sequences, 1)]
               ELSE [sd EXCEPT !.sequences = Append(@, AsDict(parsed_data))]
      [] file_type = "project" ->
            [sd EXCEPT !.project = [k \in DOMAIN @ \cup {"type", "data", "errors"} |->
                                       IF k \in {"type", "data", "errors"}
                                          THEN AsDict(parsed_data)[k] ELSE @[k]]]
      [] OTHER -> sd

\* the end states an ETL file adds, the set the loop iterates
ImplicitEndStates(file, parsed_data) ==
    IF file.readable /\ determine_file_type(file.ext) = "event_tree"
          /\ parsed_data.type = "event_tree_logic"
       THEN AddEventTrees([event_trees |-> <<>>, end_states_set |-> {}],
                          parsed_data.data.event_trees, 1).end_states_set
       ELSE {}

\* the orders in which a set can be iterated
Orders(S) == {o \in [1..Cardinality(S) -> S] : \A x \in S : \E n \in DOMAIN o : o[n] = x}

\* the schema and the counters before the walk
NewJob(job_id) ==
    [schema |-> [job_id |-> job_id, files |-> <<>>,
                 metadata |-> [total_files |-> 0, errors |-> 0, warnings |-> 0],
                 saphire_data |-> [fault_trees |-> <<>>, event_trees |-> <<>>,
                                   basic_events |-> <<>>, end_states |-> <<>>,
                                   sequences |-> <<>>, project |-> <<>>]],
     total_files |-> 0, errors |-> 0, warnings |-> 0, pos |-> 0, returned |-> FALSE]

\* the handler without its counter
FailedUncounted(j) == j

\* except Exception: errors += 1; continue
Failed(j) == [j EXCEPT !.errors = @ + 1]

\* the body of "for file in files" for one file; parsed_data is what
\* parse_saphire_file returns for its text, which is read when the file is
\* of a SAPHIRE type and can be opened
AnalyzeFile(j, file, parsed_data, order) ==
    IF IsMetadataFile(file) THEN j
    ELSE LET file_type == determine_file_type(file.ext) IN
         IF file_type \in SaphireTypes /\ ~file.readable THEN Failed(j)
         ELSE LET sd == IF file_type \in SaphireTypes
                           THEN AddData(j.schema.saphire_data, file_type, parsed_data, order)
                           ELSE j.schema.saphire_data
              IN  [j EXCEPT !.schema.saphire_data = sd,
                            !.schema.files = DictSet(@, rel_path(file),
                                                [type |-> file_type, size |-> Len(file.text),
                                                 path |-> rel_path(file)]),
                            !.total_files = @ + 1]

\* "Update metadata" and return
Finished(j) ==
    [j EXCEPT !.schema.metadata = [total_files |-> j.total_files, errors |-> j.errors,
                                   warnings |-> j.warnings],
              !.returned = TRUE]

\* ------------------------------------------------------------- session.py
\* The session file ~/.vyom/session.json: whether it exists, the
\* commands_executed list it holds (an empty file reads as a fresh session),
\* the thread whose file handle holds the flock (0: none), and the threads
\* that call track_command_execution: where each is in the call, the mode it
\* chose for open(), the lock attempt, the session data it read and the
\* calls it has finished.
Threads == 1..MaxThreads
\* _acquire_file_lock(file_handle, max_retries=10, ...)
max_retries == 10
Idle == [pc |-> "idle", mode |-> "r+", attempt |-> 0, session_data |-> <<>>, calls |-> 0]
NoSession ==
    [exists |-> FALSE, commands_executed |-> <<>>, lock |-> 0, thread |-> [t \in Threads |-> Idle]]

\* the command a worker tracks in its next call
CommandOf(s, t) == <<t, s.thread[t].calls + 1>>

\* line 94, the condition: 'r+' if os.path.exists(session_file) else 'w+'
ChooseMode(s, t) ==
    [s EXCEPT !.thread[t].pc = "open",
              !.thread[t].mode = IF s.exists THEN "r+" ELSE "w+"]

\* line 94, open(session_file, mode): 'w+' creates the file or truncates it
OpenFile(s, t) ==
    [s EXCEPT !.exists = TRUE,
              !.commands_executed = IF s.thread[t].mode = "w+" THEN <<>> ELSE @,
              !.thread[t].pc = "lock",
              !.thread[t].attempt = 0]

\* _acquire_file_lock, one pass of the loop: flock(LOCK_EX | LOCK_NB) on the
\* thread's own handle fails while another handle holds the lock; after the
\* last attempt track_command_execution returns False
AcquireAttempt(s, t) ==
    IF s.lock = 0
        THEN [s EXCEPT !.lock = t, !.thread[t].pc = "read"]
    ELSE IF s.thread[t].attempt < max_retries - 1
        THEN [s EXCEPT !.thread[t].attempt = @ + 1]
    ELSE [s EXCEPT !.thread[t].pc = "idle", !.thread[t].calls = @ + 1]

\* _read_session_data(f)
ReadSessionData(s, t) ==
    [s EXCEPT !.thread[t].pc = "write", !.thread[t].session_data = s.commands_executed]

\* append, seek(0), truncate(), json.dump, flush, fsync
WriteSessionData(s, t) ==
    [s EXCEPT !.thread[t].pc = "release",
              !.commands_executed = Append(s.thread[t].session_data, CommandOf(s, t))]

\* finally: _release_file_lock(f); the with block closes the file
ReleaseFileLock(s, t) ==
    [s EXCEPT !.lock = 0, !.thread[t].pc = "idle", !.thread[t].calls = @ + 1]

\* ---------------------------------------------------------- the state machine
NoResult == [type |-> "none", data |-> <<>>, errors |-> <<>>, raised |-> FALSE]
NoLast == [op |-> "none", ret |-> 0, arg |-> "None", valid |-> TRUE]

\* a multi-tree text as the tests generate it: trees only, no byte-order
\* mark, ^EOS after every block but the last
WellFormed(ds) ==
    /\ Len(ds) >= 1
    /\ \A k \in 1..Len(ds) :
          ds[k].shape \in TreeShapes /\ ds[k].bom = 0 /\ ds[k].eos = (k < Len(ds))

\* generate_minimal_etl(corrupted=True): the ^ of a marker becomes &, any
\* other line becomes garbage
Amp(s) ==
    CASE s = "^TOPS" -> "&TOPS" [] s = "^SEQUENCES" -> "&SEQUENCES"
      [] s = "^LOGIC" -> "&LOGIC" [] s = "^NODESUBS" -> "&NODESUBS"
      [] s = "^TEXT" -> "&TEXT" [] OTHER -> "&EOS"
CorruptLine(l) ==
    IF StartsCaret(l) THEN Line1(Amp(FirstWord(l).s)) ELSE Line1("<<<CORRUPTED>>>")

\* the module is imported: no file parsed, the template on the heap
ParseInit ==
    /\ content = EmptyText
    /\ built = <<>>
    /\ corrupt = 0
    /\ result = NoResult
SchemaInit ==
    /\ heap = TemplateHeap
    /\ held = <<>>
    /\ last = NoLast
\* no archive extracted, analyze_files not called
ExtractInit ==
    /\ archive = <<>>
    /\ job = NewJob("job1")
SessionInit == session = NoSession
ScanInit == scan = NoScan

\* one more tree block is written to the ETL file
AddBlock(shape, bom, eos) ==
    /\ fmt = ".ETL"
    /\ result = NoResult
    /\ corrupt = 0
    /\ Len(built) < MaxBlocks
    /\ built' = Append(built, [shape |-> shape, bom |-> bom, eos |-> eos])
    /\ content' = TextOf(built', Len(built'))
    /\ UNCHANGED <<fmt, corrupt, result, heap, held, last, archive, job, session, scan>>

\* one line other than the first of a well-formed multi-tree file is corrupted
Corrupt(i) ==
    /\ fmt = ".ETL"
    /\ result = NoResult
    /\ corrupt = 0
    /\ Len(built) >= 2
    /\ WellFormed(built)
    /\ i \in 2..Len(content)
    /\ content' = [content EXCEPT ![i] = CorruptLine(@)]
    /\ corrupt' = i
    /\ UNCHANGED <<fmt, built, result, heap, held, last, archive, job, session, scan>>

\* one more line is written to a file of another format
AddLine(l) ==
    /\ fmt # ".ETL"
    /\ result = NoResult
    /\ Len(built) < MaxLines
    /\ built' = Append(built, "line")
    /\ content' = JoinText(content, <<l>>)
    /\ UNCHANGED <<fmt, corrupt, result, heap, held, last, archive, job, session, scan>>

\* a byte-order mark is put in front of a file of another format
AddBom ==
    /\ fmt # ".ETL"
    /\ result = NoResult
    /\ LeadingBoms(content) < MaxBom
    /\ content' = PrefixBom(content, 1)
    /\ UNCHANGED <<fmt, built, corrupt, result, heap, held, last, archive, job, session, scan>>

\* parse_saphire_file(file_path, file_content)
ParseFile ==
    /\ result = NoResult
    /\ result' = parse_saphire_file(fmt, content)
    /\ UNCHANGED <<fmt, content, built, corrupt, heap, held, last, archive, job, session, scan>>

Init == fmt \in Formats /\ ParseInit /\ SchemaInit /\ ExtractInit /\ SessionInit /\ ScanInit
Next ==
    \/ \E shape \in BlockShapes, bom \in 0..MaxBom, eos \in BOOLEAN : AddBlock(shape, bom, eos)
    \/ \E i \in 1..Len(content) : Corrupt(i)
    \/ \E l \in Vocabulary(fmt) : AddLine(l)
    \/ AddBom
    \/ ParseFile
Spec == Init /\ [][Next]_vars

\* ------------------------------------------ an ETL file section by section
\* The sections written after a header; every tree uses the same sequence
\* and node ids.
EtlSections == {"tops", "list", "blank", "seqs", "logic", "subs", "nodepos", "text", "line"}
SectionLines(sec) ==
    CASE sec = "tops" -> <<Line1("^TOPS")>>
      [] sec = "list" -> <<Csv(<<"A1", "B1">>)>>
      [] sec = "blank" -> <<EmptyLine>>
      [] sec = "seqs" -> <<Line1("^SEQUENCES"), Line1("*"), SeqLine("S1", "OK"),
                           SeqLine("R1", "FAIL")>>
      [] sec = "logic" -> <<Line1("^LOGIC"), Csv(<<"S1", "A1">>), Csv(<<"R1", "B1">>),
                            Csv(<<"S1", "B1">>)>>
      [] sec = "subs" -> <<Line1("^NODESUBS"), Words(<<"NODEPOS", "n1">>),
                           Words(<<"o", "=", "s">>)>>
      [] sec = "nodepos" -> <<Line1("^NODESUBS"), Line1("NODEPOS")>>
      [] sec = "text" -> <<Line1("^TEXT"), Words(<<"NODEPOS", "n1">>), Line1("\"d1\"")>>
      [] OTHER -> <<Line1("S1")>>

\* one more section is written to the file
AddSection(sec) ==
    /\ scan = NoScan
    /\ Len(built) < MaxSections
    /\ built' = Append(built, sec)
    /\ content' = content \o SectionLines(sec)
    /\ UNCHANGED <<fmt, corrupt, result, heap, held, last, archive, job, session, scan>>

\* the first tree is closed and the header of a second one written
NextTree ==
    /\ scan = NoScan
    /\ Len(built) < MaxSections
    /\ \A k \in 1..Len(built) : built[k] # "tree"
    /\ built' = Append(built, "tree")
    /\ content' = content \o <<Line1("^EOS"), HeaderLine(2)>>
    /\ UNCHANGED <<fmt, corrupt, result, heap, held, last, archive, job, session, scan>>

\* parse_etl_file(content) is called
BeginParse ==
    /\ scan = NoScan
    /\ scan' = ScanStart(content)
    /\ UNCHANGED <<pvars, svars, archive, job, session>>

\* the for loop takes the next block
BeginBlock ==
    /\ scan.pc = "blocks"
    /\ scan.b < Len(scan.tree_blocks)
    /\ scan' = ScanBlockHead(scan, scan.tree_blocks[scan.b + 1])
    /\ UNCHANGED <<pvars, svars, archive, job, session>>

\* one iteration of the while loop over the lines of the block
ScanIteration ==
    /\ scan.pc = "scan"
    /\ scan.i <= Len(scan.lines)
    /\ scan' = ScanIterate(scan, ScanStep(scan.lines, scan.cur,
                                          [i |-> scan.i, trees |-> scan.trees,
                                           errors |-> scan.errors]))
    /\ UNCHANGED <<pvars, svars, archive, job, session>>

\* the while loop ends
EndBlock ==
    /\ scan.pc = "scan"
    /\ scan.i > Len(scan.lines)
    /\ scan' = [scan EXCEPT !.pc = "blocks"]
    /\ UNCHANGED <<pvars, svars, archive, job, session>>

\* the for loop ends and parse_etl_file returns
EndParse ==
    /\ scan.pc = "blocks"
    /\ scan.b = Len(scan.tree_blocks)
    /\ scan' = [scan EXCEPT !.pc = "done"]
    /\ result' = ScanReturn(scan)
    /\ UNCHANGED <<fmt, content, built, corrupt, svars, archive, job, session>>

InitEtl ==
    /\ fmt = ".ETL" /\ content = <<HeaderLine(1)>> /\ built = <<>> /\ corrupt = 0
    /\ result = NoResult
    /\ SchemaInit /\ ExtractInit /\ SessionInit /\ ScanInit
NextEtl ==
    \/ \E sec \in EtlSections : AddSection(sec)
    \/ NextTree
    \/ BeginParse
    \/ BeginBlock
    \/ ScanIteration
    \/ EndBlock
    \/ EndParse
SpecEtl == InitEtl /\ [][NextEtl]_vars

\* ------------------------------------------------- the archive analysed
File(root, name, ext, text, readable) ==
    [root |-> root, name |-> name, ext |-> ext, text |-> text, readable |-> readable]
FtHeader(name) == << <<W("HTGR_PRA")>>, <<W(name), W("=")>> >>
EtHeader(name) == << <<W("HTGR_PRA")>>, name, <<W("IE"), W("=")>> >>
EtBlock(name, seq, es) ==
    <<EtHeader(name), Line1("^TOPS"), Csv(<<"A1", "B1">>), Line1("^SEQUENCES"), Line1("*"),
      SeqLine(seq, es)>>

\* the files an archive is made of: fault trees, event trees (one file with
\* a tree named unknown, a tree T1 and a tree without name), basic events,
\* end states, sequences, a project, a file that cannot be opened, a file
\* that is not SAPHIRE, a file of an extension without parser, and the
\* files macOS adds
Pool ==
    << File("/job", "a.FTL", ".FTL", <<FtHeader("FT1"), Words(<<"G1", "OR", "BE1">>)>>, TRUE),
       File("/job/sub", "b.FTL", ".FTL", <<FtHeader("FT1"), Words(<<"G2", "AND", "BE2">>)>>, TRUE),
       File("/job", "a.ETL", ".ETL",
            EtBlock(<<W("unknown")>>, "S9", "CD") \o <<Line1("^EOS")>>
               \o EtBlock(<<W("T1")>>, "S1", "OK") \o <<Line1("^EOS")>>
               \o EtBlock(<<>>, "S8", "CD"), TRUE),
       File("/job/sub", "b.ETL", ".ETL", BlockLines("full", 1), TRUE),
       File("/job", "a.BEI", ".BEI", <<Csv(<<"BE1", "0.01", "Pump">>)>>, TRUE),
       File("/job/sub", "b.BEI", ".BEI", <<Csv(<<"BE1", "0.5", "Valve">>)>>, TRUE),
       File("/job", "a.ESD", ".ESD", <<Csv(<<"OK", "fine">>), Line1("CD")>>, TRUE),
       File("/job", "a.STL", ".STL", <<Csv(<<"S1", "d", "OK">>)>>, TRUE),
       File("/job", "a.FAD", ".FAD", <<Csv(<<"HTGR_PRA", "Demo">>)>>, TRUE),
       File("/job", "locked.FTL", ".FTL", <<FtHeader("FT3")>>, FALSE),
       File("/job", "notes.txt", ".TXT", <<Line1("notes")>>, TRUE),
       File("/job", "a.ETD", ".ETD", <<Line1("T1")>>, TRUE),
       File("/job", "._a.FTL", ".FTL", <<NoiseLine>>, TRUE),
       File("/job/sub", ".DS_Store", "", <<NoiseLine>>, TRUE),
       File("/job/__MACOSX", "a.FTL", ".FTL", <<FtHeader("MAC1")>>, TRUE),
       File("/job/__MACOSX/sub", "a.FTL", ".FTL", <<FtHeader("MAC2")>>, TRUE) >>

InArchive(k) == \E n \in 1..Len(archive) : archive[n] = Pool[k]

\* one more file is found in the job directory before the walk
AddFile(k) ==
    /\ job.pos = 0 /\ ~job.returned
    /\ Len(archive) < MaxFiles
    /\ ~InArchive(k)
    /\ archive' = Append(archive, Pool[k])
    /\ UNCHANGED <<job, pvars, svars, session, scan>>

\* analyze_files: one iteration of the loop over the files
VisitFile(file, parsed_data) ==
    \E order \in Orders(ImplicitEndStates(file, parsed_data)) :
        job' = [AnalyzeFile(job, file, parsed_data, order) EXCEPT !.pos = @ + 1]
Visit ==
    /\ job.pos < Len(archive) /\ ~job.returned
    /\ VisitFile(archive[job.pos + 1],
                 parse_saphire_file(archive[job.pos + 1].ext, archive[job.pos + 1].text))
    /\ UNCHANGED <<archive, pvars, svars, session, scan>>

\* analyze_files: after the loop
Finish ==
    /\ job.pos = Len(archive) /\ ~job.returned
    /\ job' = Finished(job)
    /\ UNCHANGED <<archive, pvars, svars, session, scan>>

InitExtract == fmt = ".ETL" /\ ParseInit /\ SchemaInit /\ ExtractInit /\ SessionInit /\ ScanInit
NextExtract ==
    \/ \E k \in DOMAIN Pool : AddFile(k)
    \/ Visit
    \/ Finish
SpecExtract == InitExtract /\ [][NextExtract]_vars

\* ------------------------------------------- the callers of the schema code
Versions == {"None", "1.0.0", "1.1.0", "9.9.9"}
Collections == {"fault_trees", "end_states"}
CallerEntry == [id |-> Str("X1"), gates |-> Val(<<>>), sequences |-> Val(<<>>)]

\* a caller calls openpra.create_empty_schema(version) and keeps the result
Created(version, c) ==
    /\ heap' = c.heap
    /\ held' = Append(held, c.ret)
    /\ last' = [op |-> "create_empty_schema", ret |-> c.ret, arg |-> version, valid |-> TRUE]
CreateEmptySchema(version) ==
    /\ Len(held) < MaxCalls
    /\ Created(version, create_empty_schema(heap, version))
    /\ UNCHANGED <<pvars, archive, job, session, scan>>

\* a caller calls converter.to_openpra(Docs[d]) and keeps the result
Converted(d, c) ==
    /\ heap' = c.heap
    /\ held' = IF c.ret = 0 THEN held ELSE Append(held, c.ret)
    /\ last' = [op |-> "to_openpra", ret |-> c.ret, arg |-> d, valid |-> c.valid]
ToOpenpra(d) ==
    /\ Len(held) < MaxCalls
    /\ Converted(d, to_openpra(heap, Docs[d]))
    /\ UNCHANGED <<pvars, archive, job, session, scan>>

\* a caller appends an entry to a collection of an instance it holds
CallerAppend(n, key) ==
    /\ n \in 1..Len(held)
    /\ Len(ModelList(heap, held[n], key)) < MaxEntries
    /\ LET h1 == Append(heap, NewDict(CallerEntry)) IN
          heap' = HAppend(h1, At(h1, At(h1, held[n], "models"), key), Ref(Len(h1)))
    /\ last' = [op |-> "append", ret |-> held[n], arg |-> key, valid |-> TRUE]
    /\ UNCHANGED <<held, pvars, archive, job, session, scan>>

\* a caller sets the title in the metadata of an instance it holds
CallerSetTitle(n) ==
    /\ n \in 1..Len(held)
    /\ heap' = HSet(heap, At(heap, held[n], "metadata"), "title", Str("mine"))
    /\ heap' # heap
    /\ last' = [op |-> "set_title", ret |-> held[n], arg |-> "mine", valid |-> TRUE]
    /\ UNCHANGED <<held, pvars, archive, job, session, scan>>

\* the instances a caller loads from files written earlier: a 1.0.0 instance
\* with one fault tree, a 1.1.0 instance that also holds a top-level key
\* and a models key of its own, an instance of a version this code does not
\* know, an instance without version
LoadShapes ==
    << [version |-> "1.0.0", extras |-> FALSE],
       [version |-> "1.1.0", extras |-> TRUE],
       [version |-> "9.9.9", extras |-> FALSE],
       [version |-> "None", extras |-> FALSE] >>
Targets == {"1.0.0", "1.1.0", "2.0.0", "9.9.9"}

\* json.load of such a file: every object is new
Loaded(h, shape) ==
    LET a == Len(h)
        top0 == [metadata |-> Ref(a + 2), models |-> Ref(a + 3)]
        top1 == IF shape.version = "None" THEN top0
                ELSE DictSet(top0, "version", Str(shape.version))
        top2 == IF shape.extras THEN DictSet(top1, "notes", Str("reviewed")) ELSE top1
        meta == [title |-> Str("old"), schema_version |-> Str(shape.version)]
        models0 == [fault_trees |-> Ref(a + 4), event_trees |-> Ref(a + 5),
                    basic_events |-> Ref(a + 6), end_states |-> Ref(a + 7)]
        models1 == IF shape.extras THEN DictSet(models0, "cut_sets", Val(<<"BE1">>))
                   ELSE models0
    IN  [heap |-> h \o << NewDict(top2), NewDict(meta), NewDict(models1),
                          [kind |-> "list", v |-> <<Ref(a + 8)>>], NewList, NewList, NewList,
                          NewDict([id |-> Str("F1"), gates |-> Val(<<>>)]) >>,
         ret |-> a + 1]

\* a caller loads an instance and keeps it
LoadInstance(k) ==
    /\ Len(held) < MaxCalls
    /\ LET c == Loaded(heap, LoadShapes[k]) IN
          /\ heap' = c.heap
          /\ held' = Append(held, c.ret)
          /\ last' = [op |-> "load", ret |-> c.ret, arg |-> k, valid |-> TRUE]
    /\ UNCHANGED <<pvars, archive, job, session, scan>>

\* the version an instance states
VersionOf(h, data) == IF HasKey(h, data, "version") THEN h[data].v["version"].str ELSE "None"

\* a caller calls openpra.upgrade_schema(held[n], target) and keeps the result
Upgraded(data, target, c) ==
    /\ heap' = c.heap
    /\ held' = IF c.ret = data THEN held ELSE Append(held, c.ret)
    /\ last' = [op |-> "upgrade_schema", ret |-> c.ret,
                arg |-> [data |-> data, target |-> target,
                         current |-> VersionOf(heap, data), before |-> heap,
                         message |-> c.message],
                valid |-> c.success]
UpgradeSchema(n, target) ==
    /\ n \in 1..Len(held)
    /\ Len(held) < MaxCalls
    /\ Upgraded(held[n], target, upgrade_schema(heap, held[n], target))
    /\ UNCHANGED <<pvars, archive, job, session, scan>>

InitSchema == fmt = ".ETL" /\ ParseInit /\ SchemaInit /\ ExtractInit /\ SessionInit /\ ScanInit
NextSchema ==
    \/ \E version \in Versions : CreateEmptySchema(version)
    \/ \E d \in DOMAIN Docs : ToOpenpra(d)
    \/ \E n \in 1..MaxCalls, key \in Collections : CallerAppend(n, key)
    \/ \E n \in 1..MaxCalls : CallerSetTitle(n)
SpecSchema == InitSchema /\ [][NextSchema]_vars

\* callers that create, convert into, load and upgrade instances
NextUpgrade ==
    \/ \E version \in Versions : CreateEmptySchema(version)
    \/ \E d \in DOMAIN Docs : ToOpenpra(d)
    \/ \E k \in DOMAIN LoadShapes : LoadInstance(k)
    \/ \E n \in 1..MaxCalls, target \in Targets : UpgradeSchema(n, target)
SpecUpgrade == InitSchema /\ [][NextUpgrade]_vars

\* ------------------------------------------ threads tracking commands
\* worker threads as in test_concurrent_access, each calling
\* track_command_execution MaxCmds times; a step is one system call or
\* one statement between two of them
Others == <<heap, held, last, pvars, archive, job, scan>>

Exists(t) ==
    /\ session.thread[t].pc = "idle"
    /\ session.thread[t].calls < MaxCmds
    /\ session' = ChooseMode(session, t)
    /\ UNCHANGED Others

Open(t) ==
    /\ session.thread[t].pc = "open"
    /\ session' = OpenFile(session, t)
    /\ UNCHANGED Others

TryLock(t) ==
    /\ session.thread[t].pc = "lock"
    /\ session' = AcquireAttempt(session, t)
    /\ UNCHANGED Others

Read(t) ==
    /\ session.thread[t].pc = "read"
    /\ session' = ReadSessionData(session, t)
    /\ UNCHANGED Others

Write(t) ==
    /\ session.thread[t].pc = "write"
    /\ session' = WriteSessionData(session, t)
    /\ UNCHANGED Others

Release(t) ==
    /\ session.thread[t].pc = "release"
    /\ session' = ReleaseFileLock(session, t)
    /\ UNCHANGED Others

\* the session file may or may not exist before the first call
InitSession ==
    /\ fmt = ".ETL" /\ ParseInit /\ SchemaInit /\ ExtractInit /\ ScanInit
    /\ session \in {NoSession, [NoSession EXCEPT !.exists = TRUE]}
NextSession ==
    \E t \in Threads :
        \/ Exists(t)
        \/ Open(t)
        \/ TryLock(t)
        \/ Read(t)
        \/ Write(t)
        \/ Release(t)
SpecSession == InitSession /\ [][NextSession]_vars

\* ------------------------------------- callers of the pure functions
\* the gate types handed to normalize_gate_type
GateTypes == {"AND", "OR", "NOT", "XOR", "NAND", "NOR", "TRAN", "A", "O", "N", "X",
              "and", "or", "a", "o", "n", "x", "tran", "And", "not", "xor", "nand", "Nor",
              "foo", "FOO", "G1", ""}
\* the probabilities, ids and names of the basic events validated; "None"
\* stands for a field that is absent
Probabilities ==
    << Num(0 - 100), Num(0 - 1), Num(0), Num(10), Num(500), Num(1000), Num(1001),
       Num(1500), NaN, Inf, Bool(TRUE), Bool(FALSE), [str |-> "0.5"], None >>
EventIds == {"None", "BE1", "BE2"}
EventNames == {"None", "Pump"}
WithField(r, k, x) == IF x = "None" THEN r ELSE DictSet(r, k, x)
Event(id, name, p) ==
    LET e == WithField(WithField(<<>>, "id", id), "name", name)
    IN  IF p = 0 THEN e ELSE DictSet(e, "probability", Probabilities[p])

\* a caller calls converter.normalize_gate_type(gate_type)
NormalizeGateType(gate_type) ==
    /\ last' = [op |-> "normalize_gate_type", ret |-> normalize_gate_type(gate_type),
                arg |-> gate_type, valid |-> TRUE]
    /\ UNCHANGED <<heap, held, pvars, archive, job, session, scan>>

\* a caller calls saphire.validate_basic_event(basic_event)
Validated(basic_event, r) ==
    last' = [op |-> "validate_basic_event", ret |-> r[2], arg |-> basic_event, valid |-> r[1]]
ValidateBasicEvent(id, name, p) ==
    /\ Validated(Event(id, name, p), validate_basic_event(Event(id, name, p)))
    /\ UNCHANGED <<heap, held, pvars, archive, job, session, scan>>

\* a caller loads an instance of the version that holds one fault tree with
\* one gate of the type (json.load: every object is new, and dropped after
\* the call) and calls openpra.validate_schema on it
LoadedWithGate(h, version, gate_type) ==
    LET a == Len(h) IN
    [heap |-> h \o << NewDict([version |-> Str(version), metadata |-> Ref(a + 2),
                               models |-> Ref(a + 3), lmp |-> Ref(a + 4)]),
                      NewDict([title |-> Str("old"), schema_version |-> Str(version)]),
                      NewDict([fault_trees |-> Ref(a + 5), event_trees |-> Ref(a + 6),
                               basic_events |-> Ref(a + 7), initiating_events |-> Ref(a + 8),
                               end_states |-> Ref(a + 9), sequences |-> Ref(a + 10)]),
                      NewDict([lbes |-> Val(<<>>), sscs |-> Val(<<>>), drm |-> Val(<<>>)]),
                      [kind |-> "list", v |-> <<Ref(a + 11)>>],
                      NewList, NewList, NewList, NewList, NewList,
                      NewDict([id |-> Str("FT1"),
                               gates |-> Val(<<[id |-> "G1", type |-> gate_type,
                                                inputs |-> <<>>]>>)]) >>,
     ret |-> a + 1]
Checked(version, gate_type, c) ==
    last' = [op |-> "validate_schema", ret |-> 0,
             arg |-> [version |-> version, gate_type |-> gate_type],
             valid |-> validate_schema(c.heap, c.ret)]
ValidateSchema(version, gate_type) ==
    /\ Checked(version, gate_type, LoadedWithGate(heap, version, gate_type))
    /\ UNCHANGED <<heap, held, pvars, archive, job, session, scan>>

NextValidate ==
    \/ \E gate_type \in GateTypes : NormalizeGateType(gate_type)
    \/ \E version \in SCHEMA_VERSIONS, gate_type \in GateTypes :
          ValidateSchema(version, gate_type)
    \/ \E id \in EventIds, name \in EventNames, p \in 0..Len(Probabilities) :
          ValidateBasicEvent(id, name, p)
SpecValidate == InitSchema /\ [][NextValidate]_vars

\* ============================================================ the properties
Parsed == result.type # "none"
EtlParsed == fmt = ".ETL" /\ Parsed
Trees == result.data.event_trees
Field(s) == <<W(s)>>
Returned(key) == ModelList(heap, last.ret, key)

\* C1: every to_openpra call on a document holding f fault trees, e event
\* trees, b basic events and s end states, also one made after earlier calls
\* in the same process, returns an instance whose four collections have
\* exactly f, e, b and s entries and which passes validate_schema.
C1_CountsOfTheDocument ==
    (last.op = "to_openpra" /\ last.ret # 0) =>
        /\ \A key \in {"fault_trees", "event_trees", "basic_events", "end_states"} :
              Len(Returned(key)) = CountOf(Docs[last.arg], key)
        /\ last.valid

\* C2: every create_empty_schema call returns an instance whose models,
\* analysis and lmp collections are all empty and which shares no mutable
\* object with the template or with an instance returned earlier.
C2_EmptyAndUnshared ==
    last.op = "create_empty_schema" =>
        /\ \A sect \in {"models", "analysis", "lmp"} :
              \A k \in DOMAIN heap[At(heap, last.ret, sect)].v :
                  DOMAIN heap[At(heap, At(heap, last.ret, sect), k)].v = {}
        /\ \A other \in ({OPENPRA_SCHEMA} \cup {held[n] : n \in 1..Len(held)}) \ {last.ret} :
              Reach(heap, last.ret) \cap Reach(heap, other) = {}

\* what block k of a well-formed text says of its tree
ExpectedTops(k) == <<Field(IdsA[k]), Field(IdsB[k])>>
ExpectedSeqs(shape, k) ==
    IF shape = "min"
        THEN <<[id |-> Field(IdsS[k]), end_state |-> Field(EndStateOf(k))]>>
        ELSE <<[id |-> Field(IdsS[k]), end_state |-> Field("OK")],
               [id |-> Field(IdsR[k]), end_state |-> Field("FAIL")]>>
TopIds(t) == [n \in 1..Len(t.top_events) |-> t.top_events[n].id]
SeqEnds(t) ==
    [n \in 1..Len(t.sequences) |->
        [id |-> t.sequences[n].id, end_state |-> t.sequences[n].end_state]]

\* C3: for a text of N >= 1 blocks separated by ^EOS, the last without a
\* trailing ^EOS, each with a header of a distinct name, a ^TOPS list and a
\* ^SEQUENCES section, parse_etl_file returns exactly N trees under those N
\* names, each holding the top events, sequences and end states of its own
\* block.
C3_OneTreePerBlock ==
    (EtlParsed /\ corrupt = 0 /\ WellFormed(built)) =>
        /\ Len(Trees) = Len(built)
        /\ \A k \in 1..Len(built) :
              /\ HasTree(Trees, Field(IdsT[k]))
              /\ TopIds(Trees[TreeIdx(Trees, Field(IdsT[k]))]) = ExpectedTops(k)
              /\ SeqEnds(Trees[TreeIdx(Trees, Field(IdsT[k]))]) = ExpectedSeqs(built[k].shape, k)
C3_Witness ==
    /\ EtlParsed /\ corrupt = 0 /\ WellFormed(built)
    /\ Len(built) = MaxBlocks
    /\ built[1].shape = "full"
    /\ Len(Trees) = MaxBlocks

\* the same blocks without their byte-order marks
NoBoms(ds) == [k \in 1..Len(ds) |-> [ds[k] EXCEPT !.bom = 0]]
BomsBeforeHeaders(ds) == \A k \in 1..Len(ds) : ds[k].bom > 0 => ds[k].shape # "noise"

\* C4: byte-order marks inserted at the very start of an ETL text or
\* immediately before a tree header, also after a ^EOS, change neither the
\* number nor the names of the trees parse_etl_file returns.
C4_BomsKeepTheTrees ==
    (EtlParsed /\ corrupt = 0 /\ BomsBeforeHeaders(built)) =>
        LET plain == parse_etl_file(TextOf(NoBoms(built), Len(built))).data.event_trees
        IN  /\ Len(Trees) = Len(plain)
            /\ TreeNames(Trees) = TreeNames(plain)

\* C5: for two trees concatenated with no ^EOS between them parse_etl_file
\* returns both trees under their names or a non-empty errors list.
C5_BothTreesOrAnError ==
    (/\ EtlParsed /\ corrupt = 0 /\ Len(built) = 2
     /\ \A k \in 1..2 : built[k].shape \in TreeShapes /\ built[k].bom = 0
     /\ ~built[1].eos) =>
        \/ {Field(IdsT[1]), Field(IdsT[2])} \subseteq TreeNames(Trees)
        \/ result.errors # <<>>

\* C6: parse_etl_file of the empty string returns, without raising, zero
\* trees and a non-empty errors list.
C6_EmptyTextIsAnError ==
    (EtlParsed /\ content = EmptyText) =>
        /\ ~result.raised
        /\ Len(Trees) = 0
        /\ result.errors # <<>>

\* the non-empty blocks the text splits into on ^EOS
NonEmptyBlocks(t) ==
    LET bs == SplitEos(t) IN
    Cardinality({n \in 1..Len(bs) : StripText(bs[n]) # EmptyText})
HasWarning(errors) == \E n \in 1..Len(errors) : errors[n] = ErrWarning

\* C7: whenever parse_etl_file named fewer trees than the text has non-empty
\* blocks, with or without a trailing ^EOS, errors holds a warning and the
\* trees found are returned.
C7_WarningWhenTreesMissing ==
    (EtlParsed /\ Len(Trees) < NonEmptyBlocks(content)) => HasWarning(result.errors)

\* C8: when one line of a well-formed multi-tree ETL text is corrupted,
\* parse_etl_file returns a non-empty errors list.
C8_CorruptionIsRecorded ==
    (EtlParsed /\ corrupt # 0) => result.errors # <<>>

ResultTypes ==
    {"basic_event_info", "fault_tree_logic", "event_tree_logic", "project_description",
     "mard_file", "end_state_description", "sequence_list"}

\* C9: every format parser returns a result with type, data and errors for
\* every text and never raises: for the empty text, for lines with too few
\* fields such as a NODEPOS line without a node id, for replacement
\* characters.
C9_ParsersNeverRaise ==
    Parsed =>
        /\ ~result.raised
        /\ {"type", "data", "errors"} \subseteq DOMAIN result
        /\ result.type \in ResultTypes
C9_Witness ==
    /\ Parsed
    /\ fmt = ".BEI"
    /\ result.errors # <<>>
    /\ Len(result.data.basic_events) > 0

\* C10: for every parser but the ETL one, a text prefixed with one or
\* several byte-order marks parses to the same data as the text without them.
C10_BomPrefixSameData ==
    (Parsed /\ fmt \notin {".ETL", ".MARD"}) =>
        result.data = parse_saphire_file(fmt, WithoutLeadingBoms(content)).data

\* the upgrade graph 1.0.0 -> 1.1.0 -> 2.0.0
Reachable(A, B) ==
    \/ A = B /\ A \in SCHEMA_VERSIONS
    \/ <<A, B>> \in {<<"1.0.0", "1.1.0">>, <<"1.1.0", "2.0.0">>, <<"1.0.0", "2.0.0">>}
IsUpgrade == last.op = "upgrade_schema"

\* C11: upgrade_schema(data, B) on an instance of known version A succeeds
\* exactly when B is reachable from A along 1.0.0 -> 1.1.0 -> 2.0.0 (A = B
\* included), 1.0.0 -> 2.0.0 being the composition of the two hops; for
\* every other pair, and for an instance of unknown or missing version, it
\* returns success = false, an explicit message ("No upgrade path" for two
\* known versions) and the data it was given.
C11_UpgradeAlongTheGraph ==
    IsUpgrade =>
        LET A == last.arg.current
            B == last.arg.target
        IN  /\ last.valid <=> (A \in SCHEMA_VERSIONS /\ Reachable(A, B))
            /\ last.valid => VersionOf(heap, last.ret) = B
            /\ (last.valid /\ A = "1.0.0" /\ B = "2.0.0") =>
                  heap = SecondStep(upgrade_1_0_to_1_1(last.arg.before, last.arg.data)).heap
            /\ ~last.valid =>
                  /\ last.ret = last.arg.data
                  /\ heap = last.arg.before
                  /\ last.arg.message \in {"No upgrade path", "Unknown source version",
                                           "Unknown target version",
                                           "No version information in data"}
                  /\ ({A, B} \subseteq SCHEMA_VERSIONS) => last.arg.message = "No upgrade path"

\* a value of the result equal to a value of the source: the same string, or
\* an object of the same kind holding at least the source's items
Kept(pre, x, h, y) ==
    IF IsRef(x)
        THEN /\ IsRef(y)
             /\ h[y.ref].kind = pre[x.ref].kind
             /\ \A k \in DOMAIN pre[x.ref].v :
                   k \in DOMAIN h[y.ref].v /\ (~IsRef(pre[x.ref].v[k]) => h[y.ref].v[k] = pre[x.ref].v[k])
        ELSE ~IsRef(y) /\ y = x
IsEmptyObject(h, x) == IsRef(x) /\ DOMAIN h[x.ref].v = {}
EmptyDefault(h, x) ==
    \/ DOMAIN x = {"str"} /\ x.str = ""
    \/ IsEmptyObject(h, x)
    \/ IsDict(h, x) /\ \A k \in DOMAIN h[x.ref].v : IsEmptyObject(h, h[x.ref].v[k])
\* every item of the dict at src before the call is in the dict at res after
\* it, and what res holds beyond them is an empty default
Additive(pre, src, h, res, changed) ==
    /\ \A k \in DOMAIN pre[src].v \ changed :
          k \in DOMAIN h[res].v /\ Kept(pre, pre[src].v[k], h, h[res].v[k])
    /\ \A k \in DOMAIN h[res].v \ (DOMAIN pre[src].v \cup changed) :
          EmptyDefault(h, h[res].v[k])
EntriesKept(pre, src, h, res) ==
    /\ Len(h[res].v) = Len(pre[src].v)
    /\ \A n \in 1..Len(pre[src].v) :
          Additive(pre, pre[src].v[n].ref, h, h[res].v[n].ref, {})

\* C12: every successful upgrade to another version keeps every field of the
\* source: each top-level key, each metadata key but schema_version, each
\* key of models and each field of each model entry is in the result with
\* the value the source had; what is new is the version fields, the
\* creation date and fields holding empty defaults.
C12_UpgradeKeepsEveryField ==
    (IsUpgrade /\ last.valid /\ last.ret # last.arg.data) =>
        LET pre == last.arg.before
            src == last.arg.data
            res == last.ret
            sm == At(pre, src, "models")
            rm == At(heap, res, "models")
        IN  /\ Additive(pre, src, heap, res, {"version", "metadata", "models"})
            /\ Additive(pre, At(pre, src, "metadata"), heap, At(heap, res, "metadata"),
                        {"schema_version", "created_date"})
            /\ \A k \in DOMAIN pre[sm].v :
                  /\ k \in DOMAIN heap[rm].v
                  /\ IF IsRef(pre[sm].v[k])
                        THEN IsRef(heap[rm].v[k])
                             /\ EntriesKept(pre, pre[sm].v[k].ref, heap, heap[rm].v[k].ref)
                        ELSE heap[rm].v[k] = pre[sm].v[k]
            /\ \A k \in DOMAIN heap[rm].v \ DOMAIN pre[sm].v : IsEmptyObject(heap, heap[rm].v[k])

\* ---- analyze_files
Doc == job.schema.saphire_data
Keyed == {"fault_trees", "event_trees", "basic_events", "end_states", "sequences"}
\* the files of the archive the loop has reached and not skipped
Walked == {n \in 1..job.pos : ~IsMetadataFile(archive[n])}
\* those of them whose processing raised
Raised(n) == determine_file_type(archive[n].ext) \in SaphireTypes /\ ~archive[n].readable
HasId(list, id) == \E n \in 1..Len(list) : "id" \in DOMAIN list[n] /\ list[n].id = id

\* C13: whatever files analyze_files has folded into the Unified Document,
\* no two entries of one collection (fault_trees, event_trees, basic_events,
\* end_states, sequences) have the same id.
C13_IdsAreUnique ==
    \A c \in Keyed :
        \A m, n \in 1..Len(Doc[c]) :
            (m # n /\ "id" \in DOMAIN Doc[c][m] /\ "id" \in DOMAIN Doc[c][n])
                => Doc[c][m].id # Doc[c][n].id

\* the ids a file gives to a collection: what its parser returns for it
Parse(n) == parse_saphire_file(archive[n].ext, archive[n].text)
ParsedIds(n, type, key, field) ==
    IF Parse(n).type = type
       THEN {Parse(n).data[key][m][field] : m \in 1..Len(Parse(n).data[key])}
       ELSE {}
Contributed(n, c) ==
    CASE c = "fault_trees" -> ParsedIds(n, "fault_tree_logic", "fault_trees", "name")
      [] c = "event_trees" ->
            {id \in ParsedIds(n, "event_tree_logic", "event_trees", "name") :
                id # <<>> /\ id # <<W("unknown")>>}
      [] c = "basic_events" -> ParsedIds(n, "basic_event_info", "basic_events", "id")
      [] c = "end_states" -> ParsedIds(n, "end_state_description", "end_states", "id")
      [] OTHER -> IF determine_file_type(archive[n].ext) = "sequence"
                     THEN ParsedIds(n, "sequence_list", "sequences", "id") ELSE {}

\* C14: every file the walk has reached and not skipped as metadata is
\* accounted for once, recorded in files and counted in total_files or
\* counted in errors, so total_files + errors is their number; a file that
\* fails stops neither the files after it nor removes what the files before
\* it gave; the counts returned are these counts.
C14_EveryFileAccounted ==
    /\ job.total_files + job.errors = Cardinality(Walked)
    /\ DOMAIN job.schema.files = {rel_path(archive[n]) : n \in {m \in Walked : ~Raised(m)}}
    /\ job.total_files = Cardinality(DOMAIN job.schema.files)
    /\ job.errors = Cardinality({n \in Walked : Raised(n)})
    /\ \A n \in Walked : ~Raised(n) =>
          \A c \in Keyed : \A id \in Contributed(n, c) : HasId(Doc[c], id)
    /\ job.returned =>
          /\ job.pos = Len(archive)
          /\ job.schema.metadata.total_files + job.schema.metadata.errors = Cardinality(Walked)
          /\ job.schema.metadata.total_files = job.total_files
\* a file that fails between two files that are both recorded
C14_Witness ==
    /\ job.returned
    /\ \E n \in Walked :
          /\ Raised(n)
          /\ n - 1 \in Walked /\ rel_path(archive[n - 1]) \in DOMAIN job.schema.files
          /\ Contributed(n - 1, "fault_trees") # {}
          /\ n + 1 \in Walked /\ rel_path(archive[n + 1]) \in DOMAIN job.schema.files
          /\ Contributed(n + 1, "basic_events") # {}

C16_ToOpenpraNeverRaises ==
    last.op = "to_openpra" =>
        /\ last.ret # 0
        /\ \A k \in {"version", "metadata", "models"} : HasKey(heap, last.ret, k)
        /\ VersionOf(heap, last.ret) = SCHEMA_VERSION

\* ---- normalize_gate_type, validate_basic_event
GateKinds == {"AND", "OR", "NOT", "XOR", "NAND", "NOR", "TRAN"}
Recognized == GateKinds \cup {"A", "O", "N", "X"}
\* a gate type written in capitals
Capitals(g) ==
    CASE g \in {"and", "And"} -> "AND" [] g = "or" -> "OR" [] g = "not" -> "NOT"
      [] g = "xor" -> "XOR" [] g = "nand" -> "NAND" [] g = "Nor" -> "NOR"
      [] g = "tran" -> "TRAN" [] g = "a" -> "A" [] g = "o" -> "O" [] g = "n" -> "N"
      [] g = "x" -> "X" [] g = "foo" -> "FOO" [] OTHER -> g

\* C17: normalize_gate_type returns one of the seven gate kinds for every
\* string: A, O, N, X give AND, OR, NOT, XOR in either letter case and a
\* string that is no gate kind and no abbreviation gives OR.
C17_NormalizeIsTotal ==
    last.op = "normalize_gate_type" =>
        /\ last.ret \in GateKinds
        /\ Capitals(last.arg) = "A" => last.ret = "AND"
        /\ Capitals(last.arg) = "O" => last.ret = "OR"
        /\ Capitals(last.arg) = "N" => last.ret = "NOT"
        /\ Capitals(last.arg) = "X" => last.ret = "XOR"
        /\ Capitals(last.arg) \notin Recognized => last.ret = "OR"
\* the abbreviation x in small letters has been normalised
C17_Witness == last.op = "normalize_gate_type" /\ last.arg = "x" /\ last.ret = "XOR"

\* a number of [0, 1]; True and False count as 1 and 0
InUnitInterval(p) ==
    \/ DOMAIN p = {"num"} /\ 0 <= p.num /\ p.num <= 1000
    \/ DOMAIN p = {"bool"}

\* C18: for a basic event that has id, name and probability,
\* validate_basic_event returns valid exactly when the probability is a
\* number in [0, 1], bounds included, and reports every other probability
\* as a failure.
C18_ValidIffInUnitInterval ==
    (last.op = "validate_basic_event" /\ {"id", "name", "probability"} \subseteq DOMAIN last.arg) =>
        /\ last.valid <=> InUnitInterval(last.arg.probability)
        /\ ~last.valid => last.ret = "Probability must be a number between 0 and 1"

\* ---- track_command_execution
AllFinished == \A t \in Threads : session.thread[t].pc = "idle" /\ session.thread[t].calls = MaxCmds
Recorded(c) == Cardinality({i \in DOMAIN session.commands_executed : session.commands_executed[i] = c})

\* C19: when several threads call track_command_execution concurrently,
\* every call is recorded: once all threads have finished,
\* commands_executed in the session file holds one entry per call, also
\* when the session file does not exist before the first call.
C19_EveryCallRecorded ==
    AllFinished =>
        /\ Len(session.commands_executed) = MaxThreads * MaxCmds
        /\ \A t \in Threads, i \in 1..MaxCmds : Recorded(<<t, i>>) = 1

\* ---- parse_ftl_file
\* the lines the parser reads, and what each of them is
FtlLines == StripText(content)
HeaderAt(i) == FtlLines[i] # EmptyLine /\ IsEtlHeader(FtlLines[i])
EosAt(i) == IsLine(FtlLines[i], "^EOS")
GateAt(i) ==
    /\ FtlLines[i] # EmptyLine /\ ~HeaderAt(i) /\ ~EosAt(i)
    /\ Len(WsSplit(FtlLines[i])) >= 2
GateOf(i) ==
    LET parts == WsSplit(FtlLines[i])
    IN  [id |-> parts[1], type |-> parts[2], inputs |-> SubSeq(parts, 3, Len(parts))]
\* line i stands under the header of line j: no header and no ^EOS between
Under(i, j) ==
    /\ j < i /\ HeaderAt(j)
    /\ \A k \in (j + 1)..(i - 1) : ~HeaderAt(k) /\ ~EosAt(k)
OwnedBy(i, name) ==
    GateAt(i) /\ \E j \in 1..(i - 1) : Under(i, j) /\ NameAfterFirstComma(FtlLines[j]) = name
\* the gates of the lines 1..i that the tree owns, in the order of the lines
RECURSIVE GatesUpTo(_, _)
GatesUpTo(i, name) ==
    IF i = 0 THEN <<>>
    ELSE GatesUpTo(i - 1, name) \o (IF OwnedBy(i, name) THEN <<GateOf(i)>> ELSE <<>>)
FtlParsed == fmt = ".FTL" /\ result.type = "fault_tree_logic" /\ ~result.raised
FtlTrees == result.data.fault_trees

\* C20: parse_ftl_file is a two-state machine: a gate line belongs to the
\* tree named by the most recent header line not yet closed by a line
\* ^EOS; gate lines before the first header or between a ^EOS and the next
\* header belong to no tree; a repeated header appends to the tree's gates.
C20_GatesUnderTheOpenHeader ==
    FtlParsed =>
        /\ {FtlTrees[k].name : k \in 1..Len(FtlTrees)}
              = {NameAfterFirstComma(FtlLines[j]) : j \in {x \in 1..Len(FtlLines) : HeaderAt(x)}}
        /\ \A k, m \in 1..Len(FtlTrees) : FtlTrees[k].name = FtlTrees[m].name => k = m
        /\ \A k \in 1..Len(FtlTrees) :
              FtlTrees[k].gates = GatesUpTo(Len(FtlLines), FtlTrees[k].name)
\* a file parsed where a header is repeated after a gate of its tree: the
\* tree holds the gate
C20_Witness ==
    /\ FtlParsed
    /\ Len(FtlLines) = 3
    /\ HeaderAt(1) /\ OwnedBy(2, NameAfterFirstComma(FtlLines[1]))
    /\ HeaderAt(3) /\ FtlLines[3] = FtlLines[1]
    /\ Len(FtlTrees) = 1
    /\ Len(FtlTrees[1].gates) = 1

\* ---- parse_etl_file step by step
EtlDone == fmt = ".ETL" /\ scan.pc = "done" /\ result.type = "event_tree_logic"
EtlTrees == result.data.event_trees
\* the lines of the block whose header names the tree
EtlBlocks == SplitEos(content)
LinesOfTree(name) ==
    StripText(EtlBlocks[CHOOSE k \in 1..Len(EtlBlocks) :
                            /\ StripText(EtlBlocks[k]) # EmptyText
                            /\ IsEtlHeader(StripText(EtlBlocks[k])[1])
                            /\ HeaderName(StripText(EtlBlocks[k])[1]) = name])
\* line j of the block is a line <seq_id>, <node_id> of a ^LOGIC section
LogicLineAt(L, j) ==
    /\ Len(Parts(L[j])) >= 2
    /\ \E m \in 1..(j - 1) :
          IsLine(L[m], "^LOGIC") /\ \A x \in (m + 1)..j : ~StartsCaret(L[x])
\* the node ids of the ^LOGIC lines 1..j for the sequence, in file order
RECURSIVE PathUpTo(_, _, _)
PathUpTo(L, j, id) ==
    IF j = 0 THEN <<>>
    ELSE PathUpTo(L, j - 1, id)
            \o (IF LogicLineAt(L, j) /\ Parts(L[j])[1] = id THEN <<Parts(L[j])[2]>> ELSE <<>>)

\* C21: within one tree block the path of each sequence is the list of the
\* node ids of the ^LOGIC lines whose seq_id is the id of the sequence, in
\* file order, wherever ^LOGIC stands relative to ^SEQUENCES; a tree without
\* ^LOGIC has only empty paths.
C21_PathIsTheLogicLines ==
    EtlDone =>
        \A k \in 1..Len(EtlTrees) : \A m \in 1..Len(EtlTrees[k].sequences) :
            EtlTrees[k].sequences[m].path
                = PathUpTo(LinesOfTree(EtlTrees[k].name), Len(LinesOfTree(EtlTrees[k].name)),
                           EtlTrees[k].sequences[m].id)


\* the first non-empty line after line m of the block, 0 if there is none
NextNonEmpty(L, m) ==
    IF \E j \in (m + 1)..Len(L) : L[j] # EmptyLine
        THEN CHOOSE j \in (m + 1)..Len(L) :
                L[j] # EmptyLine /\ \A x \in (m + 1)..(j - 1) : L[x] = EmptyLine
        ELSE 0
\* the top events listed after the ^TOPS markers of the lines 1..m
RECURSIVE TopsUpTo(_, _)
TopsUpTo(L, m) ==
    IF m = 0 THEN <<>>
    ELSE TopsUpTo(L, m - 1)
            \o (IF IsLine(L[m], "^TOPS") /\ NextNonEmpty(L, m) # 0
                   /\ ~StartsCaret(L[NextNonEmpty(L, m)])
                   THEN TopsOf(L[NextNonEmpty(L, m)])
                   ELSE <<>>)
\* ^SEQUENCES stands directly after a ^TOPS marker
SequencesAfterTops(L) ==
    \E m \in 1..(Len(L) - 1) : IsLine(L[m], "^TOPS") /\ FirstWord(L[m + 1]) = W("^SEQUENCES")

\* C22: after a ^TOPS marker the top events of the tree are the ids of the
\* next non-empty line: blank lines between the marker and the list are
\* skipped, and a section marker that follows ^TOPS is neither taken as
\* the list nor lost as a marker (its sequences are read).
C22_TopsAreTheNextNonEmptyLine ==
    EtlDone =>
        \A k \in 1..Len(EtlTrees) :
            /\ EtlTrees[k].top_events
                  = TopsUpTo(LinesOfTree(EtlTrees[k].name), Len(LinesOfTree(EtlTrees[k].name)))
            /\ SequencesAfterTops(LinesOfTree(EtlTrees[k].name))
                  => EtlTrees[k].sequences # <<>>


\* C29: parse_etl_file terminates: in every iteration of the scan of a
\* block the line index strictly increases (in each section handler, on
\* lines that match no marker and when a handler raises), so the scan of a
\* block makes at most one iteration per line after the header.
C29_IndexStrictlyIncreases ==
    scan.pc = "scan" =>
        /\ scan.i > scan.prev
        /\ scan.n <= Len(scan.lines) - 1
        /\ scan.i <= Len(scan.lines) + 2
\* the scan of a block with a ^LOGIC section has run to the end of its
\* lines, and in one iteration a handler raised and was caught
C29_Witness ==
    /\ scan.pc = "scan"
    /\ scan.n >= 2
    /\ scan.i > Len(scan.lines)
    /\ scan.errors # <<>>
    /\ \E k \in 1..Len(built) : built[k] = "logic"


\* the end states an End-State-Description file of the archive describes
ExplicitEndStates(n) ==
    IF determine_file_type(archive[n].ext) = "end_state"
          /\ Parse(n).type = "end_state_description"
       THEN {Parse(n).data.end_states[m] : m \in 1..Len(Parse(n).data.end_states)}
       ELSE {}
\* both files folded: n describes end states, m has sequences ending in them
BothKinds(n, m) ==
    /\ n \in Walked /\ m \in Walked /\ ~Raised(n) /\ ~Raised(m)
    /\ \E e \in ExplicitEndStates(n) : e.id \in ImplicitEndStates(archive[m], Parse(m))

\* C23: when an end-state id is given explicitly by an End-State-Description
\* file and implicitly by the end_state of an event-tree sequence, the
\* Unified Document holds one end state with that id and it carries the
\* explicit description, whichever file the walk processes first.
C23_ExplicitDescriptionWins ==
    \A n, m \in Walked : BothKinds(n, m) =>
        \A e \in ExplicitEndStates(n) :
            e.id \in ImplicitEndStates(archive[m], Parse(m)) =>
                /\ Cardinality({x \in 1..Len(Doc.end_states) : Doc.end_states[x].id = e.id}) = 1
                /\ \A x \in 1..Len(Doc.end_states) :
                      Doc.end_states[x].id = e.id => Doc.end_states[x].description = e.description


\* a file macOS adds: ._name, .DS_Store, or a path with a __MACOSX directory
PlatformMetadata(file) ==
    \/ file.name \in {"._a.FTL", ".DS_Store"}
    \/ file.root \in {"/job/__MACOSX", "/job/__MACOSX/sub"}
\* the files the loop has reached that macOS did not add
Counted == {n \in 1..job.pos : ~PlatformMetadata(archive[n])}

\* C24: analyze_files never classifies, parses, records or counts a file
\* whose name starts with ._, whose name is .DS_Store or whose path has a
\* __MACOSX directory, be the file in a subdirectory of __MACOSX or
\* directly in it.
C24_MetadataFilesSkipped ==
    /\ \A n \in 1..job.pos : PlatformMetadata(archive[n]) =>
          /\ rel_path(archive[n]) \notin DOMAIN job.schema.files
          /\ \A id \in Contributed(n, "fault_trees") : ~HasId(Doc.fault_trees, id)
    /\ job.total_files + job.errors = Cardinality(Counted)

\* the project a Project-Description file of the archive gives
ProjectFiles == {n \in Walked : determine_file_type(archive[n].ext) = "project" /\ ~Raised(n)}

\* C25: after analyze_files has processed an archive with one
\* Project-Description file of name N and description D, the project of
\* the Unified Document has name N and description D (the name to_openpra
\* titles the result after).
C25_ProjectNameAndDescription ==
    \A n \in ProjectFiles :
        /\ {"name", "description"} \subseteq DOMAIN Doc.project
        /\ Doc.project.name = Parse(n).data.name
        /\ Doc.project.description = Parse(n).data.description


\* C26: validate_schema returns is_valid = false for every instance, of any
\* supported version, that holds a fault tree with a gate whose type is not
\* one of the seven gate kinds.
C26_UnknownGateTypeIsInvalid ==
    (last.op = "validate_schema" /\ last.arg.gate_type \notin GateKinds) => ~last.valid

\* C30: normalize_gate_type returns each of the seven gate kinds that
\* validate_fault_tree accepts (AND, OR, NOT, XOR, NAND, NOR, TRAN)
\* unchanged, so that to_openpra does not change the type of a gate.
C30_GateKindsUnchanged ==
    (last.op = "normalize_gate_type" /\ last.arg \in GateKinds) => last.ret = last.arg


\* the entries of the four model lists of the instance at data
ModelTypes == {"fault_trees", "event_trees", "basic_events", "end_states"}
EntriesOfInstance(h, data) ==
    { h[At(h, At(h, data, "models"), t)].v[n].ref :
        <<t, n>> \in { p \in ModelTypes \X (1..Len(h)) :
                         /\ HasKey(h, At(h, data, "models"), p[1])
                         /\ p[2] <= Len(h[At(h, At(h, data, "models"), p[1])].v) } }
\* the objects a caller reads the source instance through: the instance, its
\* metadata and its model entries
SourceObjects(h, data) ==
    {data, At(h, data, "metadata")} \cup EntriesOfInstance(h, data)

\* C27: upgrade_schema never changes the instance it is given: after the
\* call, successful or not, the source's version, its metadata
\* (schema_version included) and the fields of its model entries are what
\* they were before the call, and a source that passed validation at its own
\* version still passes it.
C27_SourceUnchanged ==
    IsUpgrade =>
        /\ \A a \in SourceObjects(last.arg.before, last.arg.data) :
              heap[a] = last.arg.before[a]
        /\ validate_schema(last.arg.before, last.arg.data) =>
              validate_schema(heap, last.arg.data)


\* metadata.schema_version of the instance at data
SchemaVersionOf(h, data) ==
    IF HasKey(h, data, "metadata") /\ HasKey(h, At(h, data, "metadata"), "schema_version")
        THEN h[At(h, data, "metadata")].v["schema_version"].str
        ELSE "None"

\* C28: for every instance that passes validate_schema at its version A and
\* every target B reachable from A, the instance upgrade_schema returns
\* passes validate_schema and its version and its metadata.schema_version
\* are both B, whatever create_empty_schema, to_openpra and upgrade_schema
\* calls came before.
C28_UpgradedIsValidAtTarget ==
    (/\ IsUpgrade
     /\ last.arg.current \in SCHEMA_VERSIONS
     /\ Reachable(last.arg.current, last.arg.target)
     /\ validate_schema(last.arg.before, last.arg.data)) =>
        /\ last.valid
        /\ validate_schema(heap, last.ret)
        /\ VersionOf(heap, last.ret) = last.arg.target
        /\ SchemaVersionOf(heap, last.ret) = last.arg.target

====
